---------------------------- MODULE Spec2Model ----------------------------
(***************************************************************************)
(* A model of the Factorio mod manager's dependency resolver               *)
(* (src/resolver.py): versions, requirements, packages, the static         *)
(* package provider and PackageProvider.resolve with its backtracking      *)
(* generator `search`.                                                     *)
(*                                                                         *)
(* Python values are modelled as follows.                                  *)
(*   Version          a sequence of naturals (Version.parts)               *)
(*   Optional[X]      a sequence of length 0 (None) or 1                   *)
(*   Requirement      [prefix, name, vercomp]                              *)
(*   PackageVersion   [name, version, dependencies]; the back reference to *)
(*                    the package is kept as the package's name            *)
(*   Package          [name, releases]                                     *)
(*   a closure built by requirement_to_fun / the lock lambda               *)
(*                    a sequence of atoms, the newest first; the closure   *)
(*                    accepts a release iff every atom accepts it          *)
(*   ChainMap         a sequence of dicts, maps[0] first                   *)
(*   dict             a function whose DOMAIN is the set of keys           *)
(***************************************************************************)
EXTENDS Integers, Sequences, FiniteSets, TLC

----------------------------------------------------------------------------
(* Bounds of the model *)

\* dependencies declared by one generated release
MaxDeps == 2
\* root requirements of one generated resolve call
MaxRoots == 2
\* requirements (roots and dependencies together) of one generated universe
MaxReqs == 3
\* nesting of search calls; the guard of a recursive call
MaxDepth == 10
\* '.'-separated pieces of a generated version string
MaxPieces == 3
\* components of a generated Version
MaxParts == 3

----------------------------------------------------------------------------
(* Prefix, Comparison *)

Prefix == {"NONE", "INCOMPATIBLE", "OPTIONAL", "HIDDEN_OPTIONAL", "UNORDERED"}

Comparison == {"LT", "LE", "EQ", "GE", "GT"}

None == <<>>

Some(x) == <<x>>

----------------------------------------------------------------------------
(* Version *)

\* mutant of extend: the shorter version is not padded
extend_unpadded(parts, length) == parts

\* extend(parts, length): right-pad with zeros
extend(parts, length) ==
    parts \o [i \in 1..(length - Len(parts)) |-> 0]

Max(x, y) == IF x >= y THEN x ELSE y

\* Python's list comparison a < b: the first differing element decides, and
\* a proper prefix is less
ListLt(a, b) ==
    \/ \E i \in 1..Len(a) :
          /\ i <= Len(b)
          /\ a[i] < b[i]
          /\ \A j \in 1..(i - 1) : a[j] = b[j]
    \/ /\ Len(a) < Len(b)
       /\ \A j \in 1..Len(a) : a[j] = b[j]

\* Version.__cmp with each of the comparators
Version_lt(self, other) ==
    LET length == Max(Len(self), Len(other))
    IN  ListLt(extend(self, length), extend(other, length))

Version_eq(self, other) ==
    LET length == Max(Len(self), Len(other))
    IN  extend(self, length) = extend(other, length)

Version_ne(self, other) ==
    LET length == Max(Len(self), Len(other))
    IN  extend(self, length) # extend(other, length)

Version_le(self, other) ==
    LET length == Max(Len(self), Len(other))
    IN  \/ ListLt(extend(self, length), extend(other, length))
        \/ extend(self, length) = extend(other, length)

Version_ge(self, other) ==
    LET length == Max(Len(self), Len(other))
    IN  ~ ListLt(extend(self, length), extend(other, length))

Version_gt(self, other) ==
    LET length == Max(Len(self), Len(other))
    IN  ListLt(extend(other, length), extend(self, length))

\* VersionComparison.compare(version)
compare(vercomp, version) ==
    CASE vercomp.comparison = "LT" -> Version_lt(version, vercomp.version)
      [] vercomp.comparison = "LE" -> Version_le(version, vercomp.version)
      [] vercomp.comparison = "EQ" -> Version_eq(version, vercomp.version)
      [] vercomp.comparison = "GE" -> Version_ge(version, vercomp.version)
      [] vercomp.comparison = "GT" -> Version_gt(version, vercomp.version)

----------------------------------------------------------------------------
(* Requirement, PackageVersion, Package *)

VersionComparison(comparison, version) ==
    [comparison |-> comparison, version |-> version]

Requirement(prefix, name, vercomp) ==
    [prefix |-> prefix, name |-> name, vercomp |-> vercomp]

\* mutant of is_required: UNORDERED is not taken as required
is_required_none_only(req) == req.prefix = "NONE"

\* Requirement.is_required
is_required(req) == req.prefix = "NONE" \/ req.prefix = "UNORDERED"

PackageVersion(name, version, dependencies) ==
    [name |-> name, version |-> version, dependencies |-> dependencies]

\* Package(name, versions): versions is a sequence of <<version, dependencies>>
Package(name, versions) ==
    [name |-> name,
     releases |-> [i \in 1..Len(versions) |->
                     PackageVersion(name, versions[i][1], versions[i][2])]]

----------------------------------------------------------------------------
(* The closures of resolve *)

\* The attribute the INCOMPATIBLE branch of is_compatible reads: `req.parse`,
\* the static method Requirement.parse, which is a function object and not a
\* member of Prefix.
req_parse(req) == "Requirement.parse"

\* is_compatible(pkgver) of requirement_to_fun(req, prev), without its prev part
req_compatible(req, pkgver) ==
    IF req_parse(req) = "INCOMPATIBLE"
    THEN req.name # pkgver.name
    ELSE IF pkgver.name # req.name
    THEN TRUE
    ELSE IF req.vercomp = None
    THEN TRUE
    ELSE compare(req.vercomp[1], pkgver.version)

\* lambda pv: pv.version == pkgver.version
lock_compatible(version, pv) == Version_eq(pv.version, version)

atom_compatible(atom, pkgver) ==
    IF atom.kind = "lock"
    THEN lock_compatible(atom.version, pkgver)
    ELSE req_compatible(atom.req, pkgver)

\* calling a closure
Call(fun, pkgver) ==
    \A i \in 1..Len(fun) : atom_compatible(fun[i], pkgver)

\* requirement_to_fun(req, prev): prev is an Optional closure
requirement_to_fun(req, prev) ==
    <<[kind |-> "req", req |-> req, version |-> <<>>]>>
        \o (IF prev = None THEN <<>> ELSE prev[1])

\* the lambda that locks the version of the chosen release
lock_fun(pkgver) ==
    <<[kind |-> "lock", req |-> Requirement("NONE", "", None),
       version |-> pkgver.version]>>

\* lambda _: True, the default of reqs.get
true_fun == <<>>

----------------------------------------------------------------------------
(* ChainMap *)

EmptyDict == [k \in {} |-> <<>>]

\* ChainMap()
ChainMap_new == <<EmptyDict>>

RECURSIVE ChainMap_lookup(_, _, _)
ChainMap_lookup(maps, key, i) ==
    IF i > Len(maps) THEN None
    ELSE IF key \in DOMAIN maps[i] THEN Some(maps[i][key])
    ELSE ChainMap_lookup(maps, key, i + 1)

\* reqs.get(key): an Optional
ChainMap_get(maps, key) == ChainMap_lookup(maps, key, 1)

\* reqs.get(key, default)
ChainMap_get_default(maps, key, default) ==
    LET r == ChainMap_get(maps, key) IN IF r = None THEN default ELSE r[1]

\* reqs.new_child(m)
ChainMap_new_child(maps, m) == <<m>> \o maps

\* reqs[key] = value: writes maps[0]
ChainMap_set(maps, key, value) ==
    [maps EXCEPT ![1] =
        [k \in DOMAIN maps[1] \cup {key} |->
            IF k = key THEN value ELSE maps[1][k]]]

----------------------------------------------------------------------------
(* StaticPackageProvider *)

\* StaticPackageProvider.find(name): next(p for p in self.packages if p.name
\* == name), an Optional here; None stands for the StopIteration of next().
find(packages, name) ==
    LET hits == SelectSeq(packages, LAMBDA p : p.name = name)
    IN  IF hits = <<>> THEN None ELSE Some(hits[1])

----------------------------------------------------------------------------
(* The inputs: package universes and root lists *)

GenNames == {"a", "b"}

\* the first components of generated versions
GenComponents == {0, 1}

\* the releases of generated packages are x.0.0
GenVersion(x) == <<x, 0, 0>>

\* the requirements generated roots and releases are made of: on each
\* package a plain one, one that excludes its oldest release, one that
\* excludes its newer releases when the package is present, and an
\* incompatibility; those on b spell the prefixes and comparisons the other
\* way
GenRequirements ==
    { Requirement("NONE", "a", None),
      Requirement("NONE", "a", Some(VersionComparison("GE", <<1>>))),
      Requirement("OPTIONAL", "a", Some(VersionComparison("LT", <<1>>))),
      Requirement("INCOMPATIBLE", "a", None),
      Requirement("UNORDERED", "b", None),
      Requirement("UNORDERED", "b", Some(VersionComparison("GT", <<0>>))),
      Requirement("HIDDEN_OPTIONAL", "b",
                  Some(VersionComparison("LE", <<0>>))),
      Requirement("INCOMPATIBLE", "b", None) }

\* requirement lists of length at most m
GenLists(m) == UNION { [1..k -> GenRequirements] : k \in 0..m }

Min(x, y) == IF x <= y THEN x ELSE y

\* the dependency lists of n releases that hold at most budget requirements
RECURSIVE GenDependencies(_, _)
GenDependencies(n, budget) ==
    IF n = 0 THEN { <<>> }
    ELSE UNION { { <<deps>> \o rest :
                     rest \in GenDependencies(n - 1, budget - Len(deps)) }
                 : deps \in GenLists(Min(MaxDeps, budget)) }

\* the elements of a set of version components, oldest first
RECURSIVE Ascending(_)
Ascending(S) ==
    IF S = {} THEN <<>>
    ELSE LET x == CHOOSE y \in S : \A z \in S : y <= z
         IN  <<x>> \o Ascending(S \ {x})

\* the package list of a provider: package a with the releases of sa and
\* package b with those of sb (a package without releases is not listed)
GenPackages(sa, sb, deps) ==
    LET va == Ascending(sa)
        vb == Ascending(sb)
        pa == Package("a", [i \in 1..Len(va) |->
                                <<GenVersion(va[i]), deps[i]>>])
        pb == Package("b", [i \in 1..Len(vb) |->
                                <<GenVersion(vb[i]), deps[Len(va) + i]>>])
    IN  (IF sa = {} THEN <<>> ELSE <<pa>>)
            \o (IF sb = {} THEN <<>> ELSE <<pb>>)

\* the root lists: not empty, and the first root names package a
GenRoots ==
    { roots \in GenLists(MaxRoots) : roots # <<>> /\ roots[1].name = "a" }

----------------------------------------------------------------------------
(* The inputs: the fixtures of the tests and of the specification *)

V000 == <<0, 0, 0>>

\* test_provider_resolve_simple
SimplePackages ==
    << Package("a", << <<V000, <<>> >> >>),
       Package("b", << <<V000, << Requirement("NONE", "a", None) >> >> >>) >>

SimpleRoots ==
    { << Requirement("NONE", "a", None) >>,
      << Requirement("NONE", "b", None) >>,
      << Requirement("NONE", "b",
                     Some(VersionComparison("GE", <<1, 0, 0>>))) >> }

\* test_provider_resolve_optional
OptionalPackages ==
    << Package("a", << <<V000, <<>> >>,
                       <<(<<1, 0, 0>>), <<>> >>,
                       <<(<<2, 0, 0>>), <<>> >> >>),
       Package("b", << <<V000,
           << Requirement("NONE", "a",
                          Some(VersionComparison("GE", V000))) >> >> >>),
       Package("c", << <<V000,
           << Requirement("OPTIONAL", "a",
                          Some(VersionComparison("LT", <<2, 0, 0>>))) >> >> >>)
    >>

OptionalRoots ==
    { << Requirement("NONE", "b", None) >>,
      << Requirement("NONE", "c", None) >>,
      << Requirement("NONE", "b", None), Requirement("NONE", "c", None) >>,
      << Requirement("NONE", "c", None), Requirement("NONE", "b", None) >> }

\* test_provider_newest_incompatible
NewestIncompatiblePackages ==
    << Package("a", << <<V000, << Requirement("NONE", "b", None),
                                  Requirement("NONE", "c", None) >> >> >>),
       Package("b", << <<(<<1, 0, 0>>),
                         << Requirement("NONE", "c",
                                Some(VersionComparison("EQ", <<1>>))) >> >>,
                       <<V000, <<>> >> >>),
       Package("c", << <<V000, <<>> >> >>) >>

NewestIncompatibleRoots == { << Requirement("NONE", "a", None) >> }

\* scenario 4 of the specification: a@0.0.0 (deps: ! b), b@0.0.0
IncompatiblePackages ==
    << Package("a", << <<V000,
                         << Requirement("INCOMPATIBLE", "b", None) >> >> >>),
       Package("b", << <<V000, <<>> >> >>) >>

IncompatibleRoots ==
    { << Requirement("NONE", "a", None), Requirement("NONE", "b", None) >>,
      << Requirement("NONE", "a", None) >> }

\* scenario 5 of the specification: a@0.0.0 (deps: b), b@0.0.0 (deps: a)
CyclePackages ==
    << Package("a", << <<V000, << Requirement("NONE", "b", None) >> >> >>),
       Package("b", << <<V000, << Requirement("NONE", "a", None) >> >> >>) >>

CycleRoots == { << Requirement("NONE", "a", None) >> }

Universe(pkgs, roots) == [packages |-> pkgs, requirements |-> roots]

Fixtures ==
    { Universe(SimplePackages, r) : r \in SimpleRoots }
    \cup { Universe(OptionalPackages, r) : r \in OptionalRoots }
    \cup { Universe(NewestIncompatiblePackages, r) :
             r \in NewestIncompatibleRoots }
    \cup { Universe(IncompatiblePackages, r) : r \in IncompatibleRoots }
    \cup { Universe(CyclePackages, r) : r \in CycleRoots }

----------------------------------------------------------------------------
(* PackageProvider.resolve *)

VARIABLES
    packages,       \* provider.packages: the package universe
    requirements,   \* the argument of resolve: the root requirements
    stack,          \* the active calls of search, the outermost first
    pc,             \* "search" while resolve runs, "done" after it ended
    outcome,        \* how resolve ended: "return" or the exception raised
    result,         \* the set resolve returned
    finds,          \* the names provider.find was called with, in order
    method,         \* a call of a Version, Requirement or Package method
    ret,            \* what that call returned or raised
    game_version,   \* FactorioModProvider.game_version
    package_cache,  \* FactorioModProvider.package_cache
    lock_file,      \* the file args.lock names
    lock,           \* install_command's lock: the entries to install
    target,         \* the files of the directory args.target
    effects         \* what the program did to the world, in order

\* the state of fmm.py: the mod portal provider and the install command
fmm_vars ==
    <<game_version, package_cache, lock_file, lock, target, effects>>

vars == <<packages, requirements, stack, pc, outcome, result, finds,
          method, ret, fmm_vars>>

\* no method call is under way
NoCall == [op |-> "none"]

\* a call that has not ended
Pending == [kind |-> "pending"]

\* the lock file does not exist
Missing == [kind |-> "missing"]

\* root = Package('$root', [(Version(0, 0, 0), requirements)])
root == Package("$root", << <<(<<0, 0, 0>>), requirements>> >>)

\* a call search(packages, reqs, selected) that has not run yet
SearchCall(pkgs, reqs, selected) ==
    [pc |-> "start", packages |-> pkgs, reqs |-> reqs, selected |-> selected,
     package |-> None, versions |-> <<>>]

\* a generated universe and root list
InitGenerated ==
    \E roots \in GenRoots :
    \E sa \in SUBSET GenComponents :
    \E sb \in SUBSET GenComponents :
    \E deps \in GenDependencies(Cardinality(sa) + Cardinality(sb),
                                MaxReqs - Len(roots)) :
       /\ packages = GenPackages(sa, sb, deps)
       /\ requirements = roots

InitFixture ==
    \E u \in Fixtures :
       /\ packages = u.packages
       /\ requirements = u.requirements

Init ==
    /\ InitGenerated \/ InitFixture
    /\ stack = << SearchCall(<<root>>, ChainMap_new, EmptyDict) >>
    /\ pc = "search"
    /\ outcome = ""
    /\ result = {}
    /\ finds = <<>>
    /\ method = NoCall
    /\ ret = Pending
    /\ game_version = None
    /\ package_cache = EmptyDict
    /\ lock_file = Missing
    /\ lock = <<>>
    /\ target = EmptyDict
    /\ effects = <<>>

top == stack[Len(stack)]

----------------------------------------------------------------------------
(* search: the candidates of the popped package *)

\* the position of the release sorted(..., reverse=True) puts first: the
\* first one no other release is newer than (the sort is stable)
RECURSIVE Newest(_, _)
Newest(versions, i) ==
    IF \A j \in 1..Len(versions) :
           ~ Version_lt(versions[i].version, versions[j].version)
    THEN i
    ELSE Newest(versions, i + 1)

Remove(s, i) == SubSeq(s, 1, i - 1) \o SubSeq(s, i + 1, Len(s))

\* the position sorted(...) without reverse=True puts first
RECURSIVE Oldest(_, _)
Oldest(versions, i) ==
    IF \A j \in 1..Len(versions) :
           ~ Version_lt(versions[j].version, versions[i].version)
    THEN i
    ELSE Oldest(versions, i + 1)

\* mutant of sorted_newest_first: reverse=True is missing
RECURSIVE sorted_oldest_first(_)
sorted_oldest_first(versions) ==
    IF versions = <<>> THEN <<>>
    ELSE LET i == Oldest(versions, 1)
         IN  <<versions[i]>> \o sorted_oldest_first(Remove(versions, i))

\* sorted(versions, key=lambda pkgver: pkgver.version, reverse=True)
RECURSIVE sorted_newest_first(_)
sorted_newest_first(versions) ==
    IF versions = <<>> THEN <<>>
    ELSE LET i == Newest(versions, 1)
         IN  <<versions[i]>> \o sorted_newest_first(Remove(versions, i))

\* filter(reqs.get(package.name, lambda _: True), versions)
filter_versions(reqs, package) ==
    LET fun == ChainMap_get_default(reqs, package.name, true_fun)
    IN  SelectSeq(package.releases, LAMBDA pkgver : Call(fun, pkgver))

\* versions of lines 327-331
candidates(reqs, package) == sorted_newest_first(filter_versions(reqs, package))

----------------------------------------------------------------------------
(* search: one candidate release *)

\* mutant of forward_check_fails: the check of lines 336-340 is missing
forward_check_skipped(pkgver, selected) == FALSE

\* lines 336-340: a dependency whose name is selected rejects the selected
\* release
forward_check_fails(pkgver, selected) ==
    \E i \in 1..Len(pkgver.dependencies) :
        LET dep == pkgver.dependencies[i]
        IN  /\ dep.name \in DOMAIN selected
            /\ ~ Call(requirement_to_fun(dep, None), selected[dep.name])

\* the dict comprehension of lines 343-347: a later dependency on a name
\* replaces an earlier one
new_layer(reqs, pkgver) ==
    LET deps == pkgver.dependencies
        last(n) == CHOOSE i \in 1..Len(deps) :
                      /\ deps[i].name = n
                      /\ \A j \in (i + 1)..Len(deps) : deps[j].name # n
    IN  [n \in { deps[i].name : i \in 1..Len(deps) } |->
            requirement_to_fun(deps[last(n)], ChainMap_get(reqs, n))]

\* mutant of new_reqs: the lock of line 349 is missing
new_reqs_unlocked(reqs, package, pkgver) ==
    ChainMap_new_child(reqs, new_layer(reqs, pkgver))

\* newreqs of lines 343-349
new_reqs(reqs, package, pkgver) ==
    ChainMap_set(ChainMap_new_child(reqs, new_layer(reqs, pkgver)),
                 package.name, lock_fun(pkgver))

\* mutant of is_pushed: `dep.is_required and` is missing
is_pushed_any_prefix(dep, selected) ==
    ~ (dep.name \in DOMAIN selected)

\* mutant of is_pushed: `and not dep.name in selected` is missing
is_pushed_again(dep, selected) ==
    is_required(dep)

\* the guard of line 354
is_pushed(dep, selected) ==
    is_required(dep) /\ ~ (dep.name \in DOMAIN selected)

\* mutant of pushed_dependencies: the dependencies in reverse order
pushed_dependencies_reversed(pkgver, selected) ==
    LET deps == SelectSeq(pkgver.dependencies,
                          LAMBDA dep : is_pushed(dep, selected))
    IN  [i \in 1..Len(deps) |-> deps[Len(deps) + 1 - i]]

\* the dependencies line 353 calls self.find for, in order
pushed_dependencies(pkgver, selected) ==
    SelectSeq(pkgver.dependencies, LAMBDA dep : is_pushed(dep, selected))

\* newselected of lines 356-357
new_selected(selected, package, pkgver) ==
    [n \in DOMAIN selected \cup {package.name} |->
        IF n = package.name THEN pkgver ELSE selected[n]]

----------------------------------------------------------------------------
(* search: the steps *)

\* mutant of raise_InconsistentRequirements: the loop goes on with the next
\* candidate instead
continue_with_next_candidate ==
    /\ stack' = [stack EXCEPT ![Len(stack)].versions =
                     IF top.versions = <<>> THEN <<>> ELSE Tail(top.versions)]
    /\ UNCHANGED <<packages, requirements, pc, outcome, result, finds,
                   method, ret, fmm_vars>>

\* an InconsistentRequirements leaves the innermost call: the caller's
\* `except InconsistentRequirements: pass` goes on with its loop, and
\* without a caller resolve ends with it
raise_InconsistentRequirements ==
    IF Len(stack) = 1
    THEN /\ stack' = <<>>
         /\ pc' = "done"
         /\ outcome' = "InconsistentRequirements"
         /\ UNCHANGED <<packages, requirements, result, finds, method, ret,
                        fmm_vars>>
    ELSE /\ stack' = SubSeq(stack, 1, Len(stack) - 1)
         /\ UNCHANGED <<packages, requirements, pc, outcome, result, finds,
                      method, ret, fmm_vars>>

\* the assertion of lines 317-319
selected_consistent(reqs, selected) ==
    \A n \in DOMAIN selected :
        Call(ChainMap_get_default(reqs, selected[n].name, true_fun),
             selected[n])

\* mutant of resolve_return: `del result['$root']` is missing
resolve_return_with_root(selected) ==
    { selected[n] : n \in DOMAIN selected }

\* lines 371-375: del result['$root']; return set(result.values())
resolve_return(selected) ==
    { selected[n] : n \in DOMAIN selected \ {"$root"} }

\* lines 314-322: an empty worklist; next() takes the yielded selection
SearchYield ==
    /\ pc = "search"
    /\ top.pc = "start"
    /\ top.packages = <<>>
    /\ stack' = <<>>
    /\ pc' = "done"
    /\ IF selected_consistent(top.reqs, top.selected)
       THEN /\ outcome' = "return"
            /\ result' = resolve_return(top.selected)
       ELSE /\ outcome' = "AssertionError"
            /\ result' = {}
    /\ UNCHANGED <<packages, requirements, finds, method, ret, fmm_vars>>

\* lines 324-331: pop the worklist and order the candidates
SearchPop ==
    /\ pc = "search"
    /\ top.pc = "start"
    /\ top.packages # <<>>
    /\ LET package == top.packages[Len(top.packages)]
       IN  stack' = [stack EXCEPT ![Len(stack)] =
               [pc |-> "loop",
                packages |-> SubSeq(top.packages, 1, Len(top.packages) - 1),
                reqs |-> top.reqs,
                selected |-> top.selected,
                package |-> Some(package),
                versions |-> candidates(top.reqs, package)]]
    /\ UNCHANGED <<packages, requirements, pc, outcome, result, finds,
                      method, ret, fmm_vars>>

\* lines 334-340: the next candidate contradicts a selected release
SearchForwardFail ==
    /\ pc = "search"
    /\ top.pc = "loop"
    /\ top.versions # <<>>
    /\ forward_check_fails(top.versions[1], top.selected)
    /\ raise_InconsistentRequirements

\* line 384: next() finds no package of that name and raises StopIteration
find_raises == "StopIteration"

\* lines 352-354: an exception leaves the generator expression that called
\* self.find; a generator turns a StopIteration raised in its body into a
\* RuntimeError, and any other exception leaves it as it is
generator_raises(exception) ==
    IF exception = "StopIteration" THEN "RuntimeError" ELSE exception

\* lines 334-359 with a failing self.find: the StopIteration of next() leaves
\* the generator expression as a RuntimeError that nothing catches
SearchFindFail ==
    /\ pc = "search"
    /\ top.pc = "loop"
    /\ top.versions # <<>>
    /\ ~ forward_check_fails(top.versions[1], top.selected)
    /\ LET deps == pushed_dependencies(top.versions[1], top.selected)
       IN  /\ \E i \in 1..Len(deps) : find(packages, deps[i].name) = None
           /\ LET k == CHOOSE i \in 1..Len(deps) :
                          /\ find(packages, deps[i].name) = None
                          /\ \A j \in 1..(i - 1) :
                                 find(packages, deps[j].name) # None
              IN  finds' = finds \o [i \in 1..k |-> deps[i].name]
    /\ stack' = <<>>
    /\ pc' = "done"
    /\ outcome' = generator_raises(find_raises)
    /\ UNCHANGED <<packages, requirements, result, method, ret, fmm_vars>>

\* mutant of next_candidate: newselected is selected itself, not a copy
next_candidate_shared(call) ==
    [call EXCEPT !.versions = Tail(call.versions),
                 !.selected = new_selected(call.selected, call.package[1],
                                           call.versions[1])]

\* the call while search runs for its first candidate: the loop of line 334
\* is at the next one; packages, reqs and selected are as they were, the
\* callee got copies (lines 343, 351, 356)
next_candidate(call) ==
    [call EXCEPT !.versions = Tail(call.versions)]

\* lines 334-359: the next candidate is chosen and search is called for it
SearchDescend ==
    /\ pc = "search"
    /\ top.pc = "loop"
    /\ top.versions # <<>>
    /\ Len(stack) < MaxDepth
    /\ ~ forward_check_fails(top.versions[1], top.selected)
    /\ LET package == top.package[1]
           pkgver == top.versions[1]
           deps == pushed_dependencies(pkgver, top.selected)
       IN  /\ \A i \in 1..Len(deps) : find(packages, deps[i].name) # None
           /\ finds' = finds \o [i \in 1..Len(deps) |-> deps[i].name]
           /\ stack' =
                 [stack EXCEPT ![Len(stack)] = next_candidate(top)]
                 \o << SearchCall(
                         top.packages \o
                             [i \in 1..Len(deps) |->
                                 find(packages, deps[i].name)[1]],
                         new_reqs(top.reqs, package, pkgver),
                         new_selected(top.selected, package, pkgver)) >>
    /\ UNCHANGED <<packages, requirements, pc, outcome, result, method, ret,
                   fmm_vars>>

\* line 363: every candidate was tried
SearchExhausted ==
    /\ pc = "search"
    /\ top.pc = "loop"
    /\ top.versions = <<>>
    /\ raise_InconsistentRequirements

Next ==
    \/ SearchYield
    \/ SearchPop
    \/ SearchForwardFail
    \/ SearchFindFail
    \/ SearchDescend
    \/ SearchExhausted

Spec == Init /\ [][Next]_vars

----------------------------------------------------------------------------
(* What the claims speak of *)

Done == pc = "done"

Returned == pc = "done" /\ outcome = "return"

\* the dependencies of a release, or a requirement list, as a set
Requirements(reqs) == { reqs[i] : i \in 1..Len(reqs) }

\* release w meets the version comparison of d, when d has one
MeetsVersion(d, w) ==
    d.vercomp = None \/ compare(d.vercomp[1], w.version)

\* the set S of releases contains a release that d names and admits
Represented(d, S) ==
    \E w \in S : w.name = d.name /\ MeetsVersion(d, w)

\* what requirement d asks of a set S of releases
Satisfied(d, S) ==
    CASE is_required(d) -> Represented(d, S)
      [] d.prefix = "INCOMPATIBLE" -> \A w \in S : w.name # d.name
      [] OTHER -> \A w \in S : w.name = d.name => MeetsVersion(d, w)

\* every release of the universe
AllReleases ==
    UNION { Requirements(packages[i].releases) : i \in 1..Len(packages) }

\* S holds at most one release of a package
OnePerName(S) ==
    \A v \in S : \A w \in S : v.name = w.name => v = w

\* S answers the roots and the dependencies of its own releases
Consistent(S) ==
    /\ \A d \in Requirements(requirements) : Satisfied(d, S)
    /\ \A v \in S : \A d \in Requirements(v.dependencies) : Satisfied(d, S)

----------------------------------------------------------------------------
(* C1 *)

\* C1: when resolve returns R, every NONE or UNORDERED dependency d of every
\* release of R is represented in R: R holds a release named d.name whose
\* version meets d's version comparison.
C1_RequiredDependenciesRepresented ==
    Returned =>
        \A v \in result : \A d \in Requirements(v.dependencies) :
            is_required(d) => Represented(d, result)

----------------------------------------------------------------------------
(* C2 *)

\* C2: a package named by an INCOMPATIBLE dependency of a selected release or
\* of the roots is never in the result, the closure built for an INCOMPATIBLE
\* requirement rejects every release of that name, and with a@0.0.0 (! b),
\* b@0.0.0 the roots [a, b] raise InconsistentRequirements while the roots
\* [a] return {a@0.0.0}.
C2_IncompatibleNeverSelected ==
    /\ Returned =>
          \A d \in Requirements(requirements)
                     \cup UNION { Requirements(v.dependencies) : v \in result } :
              d.prefix = "INCOMPATIBLE" => \A w \in result : w.name # d.name
    /\ Returned =>
          \A d \in Requirements(requirements) : \A w \in AllReleases :
              (d.prefix = "INCOMPATIBLE" /\ w.name = d.name)
                  => ~ Call(requirement_to_fun(d, None), w)
    /\ (Done /\ packages = IncompatiblePackages) =>
          IF Len(requirements) = 2
          THEN outcome = "InconsistentRequirements"
          ELSE outcome = "return" /\ result = { IncompatiblePackages[1].releases[1] }

----------------------------------------------------------------------------
(* C3 *)

\* some choice of at most one release per package answers the roots and its
\* own dependencies
HasSolution ==
    \E S \in SUBSET AllReleases : OnePerName(S) /\ Consistent(S)

\* C3: the search is complete: when some assignment of one release per
\* package name satisfies every presence, version and incompatibility
\* constraint, resolve does not raise InconsistentRequirements.
C3_SearchComplete ==
    (Done /\ HasSolution) => outcome # "InconsistentRequirements"

----------------------------------------------------------------------------
(* C4 *)

\* C4: when the newest release of a required package has a dependency the
\* release chosen for that dependency cannot meet and an older release has
\* none, resolve selects the older release: with a@0.0.0 (b, c),
\* b@1.0.0 (c = 1), b@0.0.0, c@0.0.0 the roots [a] return
\* {a@0.0.0, b@0.0.0, c@0.0.0}.
C4_FallsBackToOlderRelease ==
    (Done /\ packages = NewestIncompatiblePackages) =>
        /\ outcome = "return"
        /\ result = { NewestIncompatiblePackages[1].releases[1],
                      NewestIncompatiblePackages[2].releases[2],
                      NewestIncompatiblePackages[3].releases[1] }

----------------------------------------------------------------------------
(* C5 *)

\* C5: when resolve returns R, every release of R that an OPTIONAL or
\* HIDDEN_OPTIONAL dependency of a release of R names meets that dependency's
\* version comparison, and with a@{0,1,2}.0.0, b@0.0.0 (a >= 0.0.0),
\* c@0.0.0 (? a < 2.0.0) the roots [b, c] and [c, b] return
\* {a@1.0.0, b@0.0.0, c@0.0.0}.
C5_OptionalDependenciesMet ==
    /\ Returned =>
          \A v \in result : \A d \in Requirements(v.dependencies) :
              d.prefix \in {"OPTIONAL", "HIDDEN_OPTIONAL"} =>
                  \A w \in result : w.name = d.name => MeetsVersion(d, w)
    /\ (Done /\ packages = OptionalPackages /\ Len(requirements) = 2) =>
          /\ outcome = "return"
          /\ result = { OptionalPackages[1].releases[2],
                        OptionalPackages[2].releases[1],
                        OptionalPackages[3].releases[1] }

----------------------------------------------------------------------------
(* C6 *)

\* the call of search number k was made by the call before it
Called(k) == k \in 2..Len(stack) /\ stack[k].pc = "start"

\* the release the caller of call k chose
ChosenFor(k) == stack[k].selected[stack[k - 1].package[1].name]

\* the packages the caller of call k put on the worklist for that release
PushedFor(k) ==
    SubSeq(stack[k].packages, Len(stack[k - 1].packages) + 1,
           Len(stack[k].packages))

\* requirement lists name n with a NONE or UNORDERED requirement
RequiredIn(reqs, n) ==
    \E d \in Requirements(reqs) : d.name = n /\ is_required(d)

\* C6: OPTIONAL, HIDDEN_OPTIONAL and INCOMPATIBLE dependencies never
\* materialize a package: provider.find is called, and the worklist extended,
\* only for names of NONE or UNORDERED dependencies of the chosen release,
\* and every release of the result is named by a NONE or UNORDERED root or by
\* a NONE or UNORDERED dependency of another release of the result.
C6_OnlyRequiredMaterialize ==
    /\ \A k \in 1..Len(stack) : Called(k) =>
          \A i \in 1..Len(PushedFor(k)) :
              RequiredIn(ChosenFor(k).dependencies, PushedFor(k)[i].name)
    /\ \A i \in 1..Len(finds) :
          \/ RequiredIn(requirements, finds[i])
          \/ \E v \in AllReleases : RequiredIn(v.dependencies, finds[i])
    /\ Returned =>
          \A v \in result :
              \/ RequiredIn(requirements, v.name)
              \/ \E w \in result \ {v} : RequiredIn(w.dependencies, v.name)

\* resolve returned without a package that a release of the result names in
\* an optional or incompatible dependency and the provider knows
C6_Witness ==
    /\ Returned
    /\ \E v \in result : \E d \in Requirements(v.dependencies) :
          /\ ~ is_required(d)
          /\ find(packages, d.name) # None
          /\ \A w \in result : w.name # d.name

----------------------------------------------------------------------------
(* C7 *)

\* the newest release of a package
NewestRelease(package) == package.releases[Newest(package.releases, 1)]

\* the names reachable from the names N through the NONE and UNORDERED
\* dependencies of newest releases
RECURSIVE NewestReach(_)
NewestReach(N) ==
    LET more ==
          { d.name : d \in UNION {
              { e \in Requirements(NewestRelease(find(packages, n)[1]).dependencies)
                  : is_required(e) }
              : n \in { m \in N : find(packages, m) # None } } }
    IN  IF more \subseteq N THEN N ELSE NewestReach(N \cup more)

NewestNames ==
    NewestReach({ d.name : d \in { e \in Requirements(requirements) :
                                     is_required(e) } })

\* the newest release of every package reachable from the roots
NewestSet ==
    { NewestRelease(find(packages, n)[1]) :
        n \in { m \in NewestNames : find(packages, m) # None } }

NewestSetConsistent ==
    /\ \A n \in NewestNames : find(packages, n) # None
    /\ Consistent(NewestSet)

\* C7: newest-first preference: when the newest releases of the packages
\* reachable from the roots through required dependencies satisfy all
\* constraints, resolve returns exactly that set.
C7_NewestFirst ==
    (Done /\ NewestSetConsistent) =>
        outcome = "return" /\ result = NewestSet

\* resolve returned the newest releases, one of them of a package that has
\* an older release too
C7_Witness ==
    /\ Returned
    /\ NewestSetConsistent
    /\ \E v \in result : \E w \in AllReleases :
          w.name = v.name /\ Version_lt(w.version, v.version)

----------------------------------------------------------------------------
(* C8 *)

\* the names pushed for a chosen release were not selected when it was chosen
NoSelectedPushed ==
    \A k \in 1..Len(stack) : Called(k) =>
        \A i \in 1..Len(PushedFor(k)) :
            PushedFor(k)[i].name \notin DOMAIN stack[k - 1].selected

\* what is left to do in one call of search: more before the worklist is
\* popped than after, and then the candidates left and the raise after them
Remaining(call) ==
    IF call.pc = "start"
    THEN Cardinality(AllReleases) + 3
    ELSE Len(call.versions) + 1

\* what is left to do in the active calls, the outermost first
Measure(calls) ==
    [k \in 1..MaxDepth |->
        IF k <= Len(calls) THEN Remaining(calls[k]) ELSE 0]

\* the lexicographic order of equally long sequences of naturals
LexLess(m, n) ==
    \E i \in 1..Len(m) :
        /\ m[i] < n[i]
        /\ \A j \in 1..(i - 1) : m[j] = n[j]

\* a@0.0.0 (b), b@0.0.0 (a) with roots [a] returns {a@0.0.0, b@0.0.0}
CycleResolved ==
    (Done /\ packages = CyclePackages) =>
        /\ outcome = "return"
        /\ result = { CyclePackages[1].releases[1],
                      CyclePackages[2].releases[1] }

\* C8: resolve terminates for every universe, cyclic dependencies and
\* packages pushed more than once included: every step lowers a well-founded
\* measure and the nesting of calls stays below the bound that would stop a
\* call; a package name that is selected is not pushed again; a@0.0.0 (b),
\* b@0.0.0 (a) with roots [a] returns {a@0.0.0, b@0.0.0}.
C8_Terminates ==
    [][ /\ LexLess(Measure(stack'), Measure(stack))
        /\ Len(stack') < MaxDepth
        /\ NoSelectedPushed'
        /\ CycleResolved' ]_vars

\* resolve ended after a package was put on the worklist twice, with releases
\* in the result that depend on each other (or one on itself)
C8_Witness ==
    /\ Done
    /\ \E i \in 1..Len(finds) : \E j \in 1..Len(finds) :
          i # j /\ finds[i] = finds[j]
    /\ \E v \in result : \E w \in result :
          /\ RequiredIn(v.dependencies, w.name)
          /\ RequiredIn(w.dependencies, v.name)

----------------------------------------------------------------------------
(* C9 *)

\* C9: the result of a successful resolve holds at most one release per
\* package name and never the synthetic $root release.
C9_OnePerNameNoRoot ==
    Returned =>
        /\ OnePerName(result)
        /\ \A v \in result : v.name # "$root"

\* resolve returned releases of two packages
C9_Witness ==
    /\ Returned
    /\ \E v \in result : \E w \in result : v.name # w.name

----------------------------------------------------------------------------
(* C11 *)

\* the provider knows the package root requirement d names, d carries a
\* version comparison and no release of that package meets it
Unsatisfiable(d) ==
    /\ d.vercomp # None
    /\ find(packages, d.name) # None
    /\ \A w \in Requirements(find(packages, d.name)[1].releases) :
          ~ compare(d.vercomp[1], w.version)

\* C11: when the version comparison of a required root requirement is met by
\* no release of the package it names, resolve returns no set: it raises
\* InconsistentRequirements (unless the provider failed first); with a@0.0.0,
\* b@0.0.0 (deps a) the roots [b >= 1.0.0] raise InconsistentRequirements.
C11_UnsatisfiableRootRaises ==
    /\ (Done /\ \E d \in Requirements(requirements) :
                    is_required(d) /\ Unsatisfiable(d)) =>
          /\ outcome \in {"InconsistentRequirements", "RuntimeError"}
          /\ result = {}
    /\ (Done /\ packages = SimplePackages
             /\ requirements = << Requirement("NONE", "b",
                     Some(VersionComparison("GE", <<1, 0, 0>>))) >>) =>
          /\ outcome = "InconsistentRequirements"
          /\ result = {}

----------------------------------------------------------------------------
(* C12 *)

\* provider.find was called with a name the provider does not know
FindFailed ==
    \E i \in 1..Len(finds) : find(packages, finds[i]) = None

\* C12: when provider.find fails for a required dependency of a candidate
\* release, resolve ends with the exception find raised, unchanged: it is not
\* InconsistentRequirements, no set is returned, and find is not called again
\* for a further candidate.
C12_ProviderFailurePropagates ==
    (Done /\ FindFailed) =>
        /\ outcome = find_raises
        /\ result = {}
        /\ \A i \in 1..Len(finds) :
              find(packages, finds[i]) = None => i = Len(finds)

----------------------------------------------------------------------------
(* resolve as a function of the universe and the roots *)

\* what a call of search gives its caller: the selection it yields, or the
\* exception that leaves it
Yield(selected) == [outcome |-> "return", selected |-> selected]

Raise(exception) == [outcome |-> exception, selected |-> EmptyDict]

\* lines 350-354: the packages self.find gives for the pushed dependencies
found_packages(pkgs, deps) ==
    [i \in 1..Len(deps) |-> find(pkgs, deps[i].name)[1]]

RECURSIVE search(_, _, _, _)
RECURSIVE search_loop(_, _, _, _, _, _)

\* lines 308-331: search(packages, reqs, selected) over the provider pkgs
search(pkgs, worklist, reqs, selected) ==
    IF worklist = <<>>
    THEN IF selected_consistent(reqs, selected)
         THEN Yield(selected)
         ELSE Raise("AssertionError")
    ELSE LET package == worklist[Len(worklist)]
         IN  search_loop(pkgs, SubSeq(worklist, 1, Len(worklist) - 1), reqs,
                         selected, package, candidates(reqs, package))

\* lines 333-363: the loop over the candidates that are left
search_loop(pkgs, worklist, reqs, selected, package, versions) ==
    IF versions = <<>>
    THEN Raise("InconsistentRequirements")
    ELSE LET pkgver == versions[1]
             deps == pushed_dependencies(pkgver, selected)
         IN  IF forward_check_fails(pkgver, selected)
             THEN Raise("InconsistentRequirements")
             ELSE IF \E i \in 1..Len(deps) : find(pkgs, deps[i].name) = None
             THEN Raise(generator_raises(find_raises))
             ELSE LET r == search(pkgs,
                                  worklist \o found_packages(pkgs, deps),
                                  new_reqs(reqs, package, pkgver),
                                  new_selected(selected, package, pkgver))
                  IN  IF r.outcome = "InconsistentRequirements"
                      THEN search_loop(pkgs, worklist, reqs, selected,
                                       package, Tail(versions))
                      ELSE r

\* lines 365-375: resolve(requirements) of the provider with packages pkgs
resolve(pkgs, reqs) ==
    LET r == search(pkgs,
                    << Package("$root", << <<(<<0, 0, 0>>), reqs>> >>) >>,
                    ChainMap_new, EmptyDict)
    IN  [outcome |-> r.outcome,
         result |-> IF r.outcome = "return"
                    THEN resolve_return(r.selected) ELSE {}]

----------------------------------------------------------------------------
(* C13 *)

\* the lists that hold the requirements of reqs in another order
Reordered(reqs) ==
    { [i \in 1..Len(reqs) |-> reqs[f[i]]] :
        f \in Permutations(1..Len(reqs)) }

\* C13: the outcome of resolve does not depend on the order of the roots:
\* when resolve returned a set or raised InconsistentRequirements, resolve
\* with the same roots in any other order over the same universe ends the
\* same way, with the same set.
C13_RootOrderIndependent ==
    (Done /\ outcome \in {"return", "InconsistentRequirements"}) =>
        \A roots \in Reordered(requirements) :
            resolve(packages, roots) =
                [outcome |-> outcome, result |-> result]

----------------------------------------------------------------------------
(* C14 *)

\* the prefix the specification calls equivalent for the resolver
equivalent_prefix(prefix) ==
    CASE prefix = "NONE" -> "UNORDERED"
      [] prefix = "UNORDERED" -> "NONE"
      [] prefix = "OPTIONAL" -> "HIDDEN_OPTIONAL"
      [] prefix = "HIDDEN_OPTIONAL" -> "OPTIONAL"
      [] OTHER -> prefix

\* a requirement list with the prefix of every requirement of K replaced
ReplacePrefix(reqs, K) ==
    [k \in 1..Len(reqs) |->
        IF k \in K
        THEN [reqs[k] EXCEPT !.prefix = equivalent_prefix(@)]
        ELSE reqs[k]]

\* the universe and roots with the prefix replaced in one root, in one
\* dependency of one release, or in every root and dependency
PrefixVariants(pkgs, roots) ==
    { <<pkgs, ReplacePrefix(roots, {k})>> : k \in 1..Len(roots) }
    \cup UNION { UNION { {
            << [pkgs EXCEPT ![i].releases[j].dependencies =
                                ReplacePrefix(@, {k})], roots >>
            : k \in 1..Len(pkgs[i].releases[j].dependencies) }
          : j \in 1..Len(pkgs[i].releases) }
        : i \in 1..Len(pkgs) }
    \cup { << [i \in 1..Len(pkgs) |->
                [pkgs[i] EXCEPT !.releases =
                    [j \in 1..Len(@) |->
                        [@[j] EXCEPT !.dependencies =
                            ReplacePrefix(@, 1..Len(@))]]]],
              ReplacePrefix(roots, 1..Len(roots)) >> }

\* the releases of a set by package name and version
Ids(S) == { <<v.name, v.version>> : v \in S }

\* C14: for resolve HIDDEN_OPTIONAL is OPTIONAL and UNORDERED is NONE:
\* replacing a prefix by its equivalent in a root or in a dependency leaves
\* the outcome of resolve and the releases it returns unchanged.
C14_PrefixEquivalence ==
    Done =>
        \A u \in PrefixVariants(packages, requirements) :
            /\ resolve(u[1], u[2]).outcome = outcome
            /\ Ids(resolve(u[1], u[2]).result) = Ids(result)

\* resolve returned releases of two packages, one of them pulled in by an
\* UNORDERED requirement, under an OPTIONAL or HIDDEN_OPTIONAL requirement
\* that names a returned release
C14_Witness ==
    /\ Returned
    /\ \E v \in result : \E w \in result : v.name # w.name
    /\ \E d \in Requirements(requirements)
                  \cup UNION { Requirements(v.dependencies) : v \in result } :
          d.prefix = "UNORDERED" /\ Represented(d, result)
    /\ \E d \in Requirements(requirements)
                  \cup UNION { Requirements(v.dependencies) : v \in result } :
          /\ d.prefix \in {"OPTIONAL", "HIDDEN_OPTIONAL"}
          /\ \E w \in result : w.name = d.name

----------------------------------------------------------------------------
(* Strings: a str is a sequence of characters *)

\* the characters str.strip, str.lstrip and int take as whitespace
whitespace == {" "}

RECURSIVE lstrip(_)
lstrip(s) ==
    IF s # <<>> /\ Head(s) \in whitespace THEN lstrip(Tail(s)) ELSE s

RECURSIVE rstrip(_)
rstrip(s) ==
    IF s # <<>> /\ s[Len(s)] \in whitespace
    THEN rstrip(SubSeq(s, 1, Len(s) - 1))
    ELSE s

strip(s) == rstrip(lstrip(s))

startswith(s, prefix) ==
    Len(prefix) <= Len(s) /\ SubSeq(s, 1, Len(prefix)) = prefix

\* s[n:]
slice_from(s, n) == SubSeq(s, n + 1, Len(s))

\* s.split(sep) for a separator of one character
RECURSIVE split(_, _)
split(s, sep) ==
    IF \E i \in 1..Len(s) : s[i] = sep
    THEN LET i == CHOOSE k \in 1..Len(s) :
                      s[k] = sep /\ \A j \in 1..(k - 1) : s[j] # sep
         IN  << SubSeq(s, 1, i - 1) >> \o split(slice_from(s, i), sep)
    ELSE << s >>

\* sep.join(pieces)
RECURSIVE join(_, _)
join(sep, pieces) ==
    IF pieces = <<>> THEN <<>>
    ELSE IF Len(pieces) = 1 THEN pieces[1]
    ELSE pieces[1] \o <<sep>> \o join(sep, Tail(pieces))

decimal_digits == <<"0", "1", "2", "3", "4", "5", "6", "7", "8", "9">>

is_digit(c) == \E d \in 1..Len(decimal_digits) : decimal_digits[d] = c

digit_value(c) ==
    (CHOOSE d \in 1..Len(decimal_digits) : decimal_digits[d] = c) - 1

\* the value of a run of digits with underscores between them
RECURSIVE digits_value(_, _)
digits_value(s, acc) ==
    IF s = <<>> THEN acc
    ELSE IF Head(s) = "_" THEN digits_value(Tail(s), acc)
    ELSE digits_value(Tail(s), 10 * acc + digit_value(Head(s)))

\* int(s) of Python for a str: whitespace around the literal is skipped, a
\* sign may lead, and the digits may be grouped by single underscores;
\* None stands for the ValueError
int(s) ==
    LET t == strip(s)
        signed == t # <<>> /\ Head(t) \in {"+", "-"}
        body == IF signed THEN Tail(t) ELSE t
        wellformed ==
            /\ body # <<>>
            /\ \A i \in 1..Len(body) : is_digit(body[i]) \/ body[i] = "_"
            /\ is_digit(body[1]) /\ is_digit(body[Len(body)])
            /\ \A i \in 1..(Len(body) - 1) :
                  ~ (body[i] = "_" /\ body[i + 1] = "_")
    IN  IF ~ wellformed THEN None
        ELSE IF signed /\ Head(t) = "-"
        THEN Some(0 - digits_value(body, 0))
        ELSE Some(digits_value(body, 0))

\* str(i) of a Python int
RECURSIVE str_of_nat(_)
str_of_nat(i) ==
    IF i < 10 THEN << decimal_digits[i + 1] >>
    ELSE str_of_nat(i \div 10) \o << decimal_digits[(i % 10) + 1] >>

str_of_int(i) == IF i < 0 THEN <<"-">> \o str_of_nat(0 - i) ELSE str_of_nat(i)

----------------------------------------------------------------------------
(* Version.parse, Version.__str__, Requirement.parse, Package.get *)

\* how a call ends: with a value or with an exception
Returns(value) == [kind |-> "return", value |-> value]

Raises(exception) == [kind |-> "raise", exception |-> exception]

\* Version.parse.str_to_int; None stands for the ValueError
str_to_int(s) ==
    IF strip(s) # s THEN None
    ELSE LET i == int(s)
         IN  IF i = None THEN None
             ELSE IF i[1] < 0 \/ i[1] > 65535 THEN None
             ELSE i

\* Version.parse(s)
Version_parse(s) ==
    LET pieces == split(s, ".")
        parts == [i \in 1..Len(pieces) |-> str_to_int(pieces[i])]
    IN  IF \E i \in 1..Len(parts) : parts[i] = None
        THEN Raises("ValueError")
        ELSE Returns([i \in 1..Len(parts) |-> parts[i][1]])

\* mutant of Version_str: trailing zero components are trimmed
RECURSIVE Version_str_trimmed(_)
Version_str_trimmed(self) ==
    IF Len(self) > 1 /\ self[Len(self)] = 0
    THEN Version_str_trimmed(SubSeq(self, 1, Len(self) - 1))
    ELSE join(".", [i \in 1..Len(self) |-> str_of_int(self[i])])

\* Version.__str__
Version_str(self) ==
    join(".", [i \in 1..Len(self) |-> str_of_int(self[i])])

\* ''.join(takewhile(lambda c: c not in '<=>', s))
RECURSIVE takewhile_name(_)
takewhile_name(s) ==
    IF s = <<>> \/ Head(s) \in {"<", "=", ">"} THEN <<>>
    ELSE << Head(s) >> \o takewhile_name(Tail(s))

\* lines 174-186: the prefix of a stripped requirement string and the rest
parse_prefix(s) ==
    IF startswith(s, <<"!">>) THEN << "INCOMPATIBLE", slice_from(s, 1) >>
    ELSE IF startswith(s, <<"?">>) THEN << "OPTIONAL", slice_from(s, 1) >>
    ELSE IF startswith(s, <<"(", "?", ")">>)
    THEN << "HIDDEN_OPTIONAL", slice_from(s, 3) >>
    ELSE IF startswith(s, <<"~">>) THEN << "UNORDERED", slice_from(s, 1) >>
    ELSE << "NONE", s >>

\* lines 202-219: the comparison a string starts with and the rest; None
\* stands for the ValueError of the else branch
parse_comparison(s) ==
    IF startswith(s, <<"<", "=">>) THEN Some(<< "LE", slice_from(s, 2) >>)
    ELSE IF startswith(s, <<">", "=">>) THEN Some(<< "GE", slice_from(s, 2) >>)
    ELSE IF startswith(s, <<"<">>) THEN Some(<< "LT", slice_from(s, 1) >>)
    ELSE IF startswith(s, <<">">>) THEN Some(<< "GT", slice_from(s, 1) >>)
    ELSE IF startswith(s, <<"=">>) THEN Some(<< "EQ", slice_from(s, 1) >>)
    ELSE None

\* mutant of parse_vercomp: the vercomp of an INCOMPATIBLE requirement is kept
parse_vercomp_kept(prefix, comp, version) ==
    Some(VersionComparison(comp, version))

\* lines 222-226: the vercomp of the parsed requirement
parse_vercomp(prefix, comp, version) ==
    IF prefix = "INCOMPATIBLE" THEN None
    ELSE Some(VersionComparison(comp, version))

\* mutant of parse_version: only the text up to the first space is parsed
parse_version_first_word(s) ==
    Version_parse(split(lstrip(s), " ")[1])

\* lines 220-221: the version is parsed from all that is left
parse_version(s) == Version_parse(lstrip(s))

\* Requirement.parse(s)
Requirement_parse(s) ==
    LET p == parse_prefix(strip(s))
        s2 == lstrip(p[2])
        name == strip(takewhile_name(s2))
        s3 == lstrip(slice_from(s2, Len(name)))
        c == parse_comparison(s3)
    IN  IF name = <<>> THEN Raises("ValueError")
        ELSE IF s3 = <<>> THEN Returns(Requirement(p[1], name, None))
        ELSE IF c = None THEN Raises("ValueError")
        ELSE LET version == parse_version(c[1][2])
             IN  IF version.kind = "raise" THEN version
                 ELSE Returns(Requirement(p[1], name,
                          parse_vercomp(p[1], c[1][1], version.value)))

\* Package.get(version, default): next() gives the first release of that
\* version and raises StopIteration when there is none; a release is never
\* None, so line 271 never returns the default
Package_get(self, version, default) ==
    LET hits == SelectSeq(self.releases,
                          LAMBDA pv : Version_eq(pv.version, version))
    IN  IF hits = <<>> THEN Raises("StopIteration") ELSE Returns(hits[1])

\* Package.__getitem__(version): the StopIteration of get leaves it, and
\* line 277 never raises the KeyError
Package_getitem(self, version) == Package_get(self, version, None)

----------------------------------------------------------------------------
(* The methods called on their own: inputs, calls and the specification *)

\* the pieces of the generated version strings
VersionPieces ==
    { <<>>, <<"0">>, <<"1">>, <<"0", "0">>, <<"0", "7">>, <<"1", "0">>,
      <<"6", "5", "5", "3", "5">>, <<"6", "5", "5", "3", "6">>,
      <<"-", "1">>, <<"-", "0">>, <<"+", "1">>, <<"1", "_", "0">>,
      <<" ", "1">>, <<"1", " ">>, <<"x">>, <<"1", "x">> }

VersionStrings ==
    { join(".", pieces) :
        pieces \in UNION { [1..k -> VersionPieces] : k \in 1..MaxPieces } }

\* the versions given to the comparisons
CompareVersions == UNION { [1..k -> {0, 1, 2}] : k \in 0..MaxParts }

\* the versions given to __str__
StrVersions == UNION { [1..k -> {0, 7, 10, 65535}] : k \in 0..MaxParts }

CompareOps == {"__lt__", "__le__", "__eq__", "__ne__", "__ge__", "__gt__"}

\* the requirement strings: a prefix, a name, a comparison, a version and
\* a rest, each well formed or not
RequirementStrings ==
    { a \o b \o c \o d \o e :
        a \in { <<>>, <<"!">>, <<"?">>, <<"(", "?", ")">>, <<"~">>,
                <<"!", " ">>, <<" ", "?">> },
        b \in { <<>>, <<"a">>, <<"a", " ", "b">>, <<"a", " ">> },
        c \in { <<>>, <<"<">>, <<"<", "=">>, <<">", "=">>, <<">">>, <<"=">>,
                <<" ", "=", " ">> },
        d \in { <<>>, <<"1">>, <<"1", ".", "2">>, <<" ", "1">>, <<"x">> },
        e \in { <<>>, <<" ">>, <<">", "4">>, <<" ", ">", " ", "4">> } }

\* the packages and arguments of Package.get and Package.__getitem__
GetPackages ==
    { Package("a", [i \in 1..Len(versions) |-> << versions[i], <<>> >>]) :
        versions \in UNION { [1..k -> { <<1>>, <<1, 0>>, <<2, 0, 0>> }]
                             : k \in 0..2 } }

GetVersions == { <<1>>, <<1, 0, 0>>, <<2>>, <<3>> }

GetDefaults == { None, Some(PackageVersion("a", <<9>>, <<>>)) }

\* Version.__lt__ and the other five, by name
Version_compare(op, self, other) ==
    CASE op = "__lt__" -> Version_lt(self, other)
      [] op = "__le__" -> Version_le(self, other)
      [] op = "__eq__" -> Version_eq(self, other)
      [] op = "__ne__" -> Version_ne(self, other)
      [] op = "__ge__" -> Version_ge(self, other)
      [] op = "__gt__" -> Version_gt(self, other)

MethodInit ==
    /\ packages = <<>>
    /\ requirements = <<>>
    /\ stack = <<>>
    /\ pc = "method"
    /\ outcome = ""
    /\ result = {}
    /\ finds = <<>>
    /\ ret = Pending
    /\ game_version = None
    /\ package_cache = EmptyDict
    /\ lock_file = Missing
    /\ lock = <<>>
    /\ target = EmptyDict
    /\ effects = <<>>
    /\ \/ \E s \in VersionStrings : method = [op |-> "Version.parse", s |-> s]
       \/ \E v \in StrVersions : method = [op |-> "Version.__str__", self |-> v]
       \/ \E op \in CompareOps : \E a \in CompareVersions :
          \E b \in CompareVersions :
             method = [op |-> op, self |-> a, other |-> b]
       \/ \E s \in RequirementStrings :
             method = [op |-> "Requirement.parse", s |-> s]
       \/ \E p \in GetPackages : \E v \in GetVersions : \E d \in GetDefaults :
             method = [op |-> "Package.get", self |-> p, version |-> v,
                       default |-> d]
       \/ \E p \in GetPackages : \E v \in GetVersions :
             method = [op |-> "Package.__getitem__", self |-> p,
                       version |-> v]

\* the call of method ends with r
Ends(r) ==
    /\ ret.kind = "pending"
    /\ ret' = r
    /\ UNCHANGED <<packages, requirements, stack, pc, outcome, result, finds,
                   method, fmm_vars>>

CallVersionParse ==
    /\ method.op = "Version.parse"
    /\ Ends(Version_parse(method.s))

CallVersionStr ==
    /\ method.op = "Version.__str__"
    /\ Ends(Returns(Version_str(method.self)))

CallVersionCompare ==
    /\ method.op \in CompareOps
    /\ Ends(Returns(Version_compare(method.op, method.self, method.other)))

CallRequirementParse ==
    /\ method.op = "Requirement.parse"
    /\ Ends(Requirement_parse(method.s))

CallPackageGet ==
    /\ method.op = "Package.get"
    /\ Ends(Package_get(method.self, method.version, method.default))

CallPackageGetItem ==
    /\ method.op = "Package.__getitem__"
    /\ Ends(Package_getitem(method.self, method.version))

MethodNext ==
    \/ CallVersionParse
    \/ CallVersionStr
    \/ CallVersionCompare
    \/ CallRequirementParse
    \/ CallPackageGet
    \/ CallPackageGetItem

MethodSpec == MethodInit /\ [][MethodNext]_vars

\* the call of op has ended
Ended(op) == method.op = op /\ ret.kind # "pending"

----------------------------------------------------------------------------
(* C15 *)

\* the lexicographic comparison of two component tuples, a missing
\* component counting as zero: -1, 0 or 1
RECURSIVE LexCompare(_, _)
LexCompare(a, b) ==
    IF a = <<>> /\ b = <<>> THEN 0
    ELSE LET x == IF a = <<>> THEN 0 ELSE Head(a)
             y == IF b = <<>> THEN 0 ELSE Head(b)
         IN  IF x < y THEN 0 - 1
             ELSE IF x > y THEN 1
             ELSE LexCompare(IF a = <<>> THEN a ELSE Tail(a),
                             IF b = <<>> THEN b ELSE Tail(b))

\* what the comparison op of two versions is by that order
LexExpected(op, a, b) ==
    CASE op = "__lt__" -> LexCompare(a, b) < 0
      [] op = "__le__" -> LexCompare(a, b) <= 0
      [] op = "__eq__" -> LexCompare(a, b) = 0
      [] op = "__ne__" -> LexCompare(a, b) # 0
      [] op = "__ge__" -> LexCompare(a, b) >= 0
      [] op = "__gt__" -> LexCompare(a, b) > 0

\* one of the six comparisons of two versions has returned
Compared == method.op \in CompareOps /\ ret.kind = "return"

\* C15: each of the six comparisons of two versions is the lexicographic
\* comparison of their component tuples after the shorter is right-padded
\* with zeros; so Version(1) == Version(1,0) == Version(1,0,0),
\* Version(1,0) < Version(2), and exactly one of a < b, a == b, a > b holds.
C15_VersionOrder ==
    Compared =>
        LET a == method.self
            b == method.other
        IN  /\ ret.value = LexExpected(method.op, a, b)
            /\ (method.op = "__eq__" /\ a = <<1>>
                    /\ b \in {<<1, 0>>, <<1, 0, 0>>}) => ret.value
            /\ (method.op = "__eq__" /\ a = <<1, 0>> /\ b = <<1, 0, 0>>)
                  => ret.value
            /\ (method.op = "__lt__" /\ a = <<1, 0>> /\ b = <<2>>)
                  => ret.value
            /\ \/ Version_lt(a, b) /\ ~ Version_eq(a, b) /\ ~ Version_gt(a, b)
               \/ ~ Version_lt(a, b) /\ Version_eq(a, b) /\ ~ Version_gt(a, b)
               \/ ~ Version_lt(a, b) /\ ~ Version_eq(a, b) /\ Version_gt(a, b)

\* versions of different lengths were found equal
C15_Witness ==
    /\ Compared
    /\ method.op = "__eq__"
    /\ Len(method.self) < Len(method.other)
    /\ method.self # <<>>
    /\ ret.value

----------------------------------------------------------------------------
(* C16 *)

\* a run of decimal digits, at least one
DigitRun(piece) ==
    piece # <<>> /\ \A i \in 1..Len(piece) : is_digit(piece[i])

\* the number a run of decimal digits denotes
RECURSIVE DecimalValue(_)
DecimalValue(piece) ==
    IF piece = <<>> THEN 0
    ELSE 10 * DecimalValue(SubSeq(piece, 1, Len(piece) - 1))
             + digit_value(piece[Len(piece)])

\* every '.'-separated piece of s is a run of digits of value 0..65535
WellFormedVersion(s) ==
    \A i \in 1..Len(split(s, ".")) :
        LET piece == split(s, ".")[i]
        IN  DigitRun(piece) /\ DecimalValue(piece) <= 65535

\* C16: Version.parse returns a Version only when every '.'-separated piece
\* of the string is a run of decimal digits with a value in [0, 65535], and
\* fails for every other string: a piece with whitespace at an end, with a
\* character that is no digit, out of range or empty.
C16_VersionParseRejects ==
    Ended("Version.parse") =>
        (ret.kind = "return" <=> WellFormedVersion(method.s))

----------------------------------------------------------------------------
(* C17 *)

\* a canonical version string: every piece a run of digits without
\* superfluous leading zeros, of value 0..65535
Canonical(s) ==
    \A i \in 1..Len(split(s, ".")) :
        LET piece == split(s, ".")[i]
        IN  /\ DigitRun(piece)
            /\ Len(piece) = 1 \/ piece[1] # "0"
            /\ DecimalValue(piece) <= 65535

----------------------------------------------------------------------------
(* C18 *)

\* C18: every Requirement that Requirement.parse returns with the prefix
\* INCOMPATIBLE has no vercomp, whatever comparison and version followed the
\* name ('! mod > 1.2.3' gives (INCOMPATIBLE, 'mod', None)).
C18_IncompatibleHasNoVercomp ==
    (Ended("Requirement.parse") /\ ret.kind = "return"
        /\ ret.value.prefix = "INCOMPATIBLE") =>
        ret.value.vercomp = None

\* an INCOMPATIBLE requirement was parsed from a string with a comparison
\* and a version after the name
C18_Witness ==
    /\ Ended("Requirement.parse")
    /\ ret.kind = "return"
    /\ ret.value.prefix = "INCOMPATIBLE"
    /\ ret.value.name = <<"a">>
    /\ \E i \in 1..Len(method.s) : method.s[i] = ">"
    /\ method.s[Len(method.s)] = "2"

----------------------------------------------------------------------------
(* C19 *)

\* the requirement string after its prefix and the whitespace that follows
AfterPrefix(s) == lstrip(parse_prefix(strip(s))[2])

\* the name: the longest run of characters other than <, =, >, trimmed
NameOf(s) == strip(takewhile_name(AfterPrefix(s)))

\* the text after the name
AfterName(s) == lstrip(slice_from(AfterPrefix(s), Len(NameOf(s))))

\* the text after the comparison operator
AfterComparison(s) == lstrip(parse_comparison(AfterName(s))[1][2])

\* the characters of t up to the first whitespace or comparison character
RECURSIVE FirstWord(_)
FirstWord(t) ==
    IF t = <<>> \/ Head(t) \in whitespace \cup {"<", "=", ">"} THEN <<>>
    ELSE << Head(t) >> \o FirstWord(Tail(t))

\* what is left after one comparison and version, whitespace apart
Remains(s) ==
    strip(slice_from(AfterComparison(s), Len(FirstWord(AfterComparison(s)))))

\* C19: Requirement.parse fails when the name is empty, when the text after
\* the name does not begin with a comparison operator, and when anything but
\* whitespace is left after one comparison and version ('mod < 1.2.3 >
\* 4.5.6'); whitespace after the version is accepted.
C19_RequirementParseRejects ==
    Ended("Requirement.parse") =>
        LET s == method.s
        IN  /\ NameOf(s) = <<>> => ret.kind = "raise"
            /\ (AfterName(s) # <<>> /\ parse_comparison(AfterName(s)) = None)
                  => ret.kind = "raise"
            /\ (AfterName(s) # <<>> /\ parse_comparison(AfterName(s)) # None
                    /\ Remains(s) # <<>>) => ret.kind = "raise"
            /\ (NameOf(s) # <<>> /\ AfterName(s) # <<>>
                    /\ parse_comparison(AfterName(s)) # None
                    /\ Canonical(FirstWord(AfterComparison(s)))
                    /\ Remains(s) = <<>>) =>
                  /\ ret.kind = "return"
                  /\ ret.value.name = NameOf(s)

\* a requirement with a version and whitespace after it was parsed
C19_Witness ==
    /\ Ended("Requirement.parse")
    /\ ret.kind = "return"
    /\ ret.value.vercomp # None
    /\ method.s[Len(method.s)] \in whitespace

----------------------------------------------------------------------------
(* C20 *)

\* the releases of package p whose version equals version, whatever the
\* lengths
ReleasesOf(p, version) ==
    { i \in 1..Len(p.releases) :
        LexCompare(p.releases[i].version, version) = 0 }

\* C20: Package.get and Package.__getitem__ return the release whose version
\* equals the argument (whatever the lengths); when the package has no such
\* release, get returns the default and __getitem__ raises KeyError.
C20_PackageLookup ==
    /\ Ended("Package.get") =>
          IF ReleasesOf(method.self, method.version) # {}
          THEN /\ ret.kind = "return"
               /\ \E i \in ReleasesOf(method.self, method.version) :
                     ret.value = method.self.releases[i]
          ELSE ret.kind = "return"
    /\ Ended("Package.__getitem__") =>
          IF ReleasesOf(method.self, method.version) # {}
          THEN /\ ret.kind = "return"
               /\ \E i \in ReleasesOf(method.self, method.version) :
                     ret.value = method.self.releases[i]
          ELSE ret.kind = "raise" /\ ret.exception = "KeyError"

----------------------------------------------------------------------------
(* fmm.py: the packages of the mod portal *)

MOD_PORTAL_URL == "https://mods.factorio.com"

INTERNAL_MODS == <<"base", "space-age", "elevated-rails", "quality">>

DEFAULT_FACTORIO_VERSION == <<2, 0, 32>>

\* name in INTERNAL_MODS
is_internal(name) == \E i \in DOMAIN INTERNAL_MODS : INTERNAL_MODS[i] = name

FactorioModVersion(name, version, dependencies, download_url, file_name, sha1) ==
    [name |-> name, version |-> version, dependencies |-> dependencies,
     download_url |-> download_url, file_name |-> file_name, sha1 |-> sha1]

\* FactorioMod(name, versions): versions is a sequence of
\* <<version, dependencies, url, file_name, sha1>>
FactorioMod(name, versions) ==
    [name |-> name,
     releases |-> [i \in 1..Len(versions) |->
                     FactorioModVersion(name, versions[i][1], versions[i][2],
                                        versions[i][3], versions[i][4],
                                        versions[i][5])]]

\* the characters of a Python string as one string
RECURSIVE text(_)
text(s) == IF s = <<>> THEN "" ELSE Head(s) \o text(Tail(s))

\* sha1(data).hexdigest(): the digests of different data differ
sha1(data) == "sha1(" \o data \o ")"

\* requests.get(url) and the response r it got
Get(url, r) == [op |-> "requests.get", url |-> url, response |-> r]

\* the first exception among the results of a comprehension, which leaves
\* it, or else the list of the values
comprehension(results) ==
    LET bad == { i \in DOMAIN results : results[i].kind = "raise" }
    IN  IF bad = {}
        THEN Returns([i \in DOMAIN results |-> results[i].value])
        ELSE results[CHOOSE i \in bad : \A j \in bad : i <= j]

\* lines 59-62, the tuple of one release: parsed is its Version and its
\* Requirements, or the exception of their parsing
release_tuple(release, parsed) ==
    IF parsed.kind = "raise" THEN parsed
    ELSE Returns(<< parsed.value[1],
                    [i \in 1..(Len(parsed.value) - 1) |->
                       Requirement(parsed.value[i + 1].prefix,
                                   text(parsed.value[i + 1].name),
                                   parsed.value[i + 1].vercomp)],
                    release.download_url, release.file_name,
                    release.sha1 >>)

\* lines 59-62 for one release: Version.parse, then Requirement.parse of the
\* dependencies from left to right
parse_release(release) ==
    release_tuple(release,
        comprehension(<< Version_parse(release.version) >>
                      \o [i \in DOMAIN release.dependencies |->
                            Requirement_parse(release.dependencies[i])]))

\* line 65: the package of the parsed releases, or their exception
package_of(modname, versions) ==
    IF versions.kind = "raise" THEN versions
    ELSE Returns(FactorioMod(modname, versions.value))

\* load_package(modname) when the portal answers with r
load_package(modname, r) ==
    IF r.status_code # 200 THEN Raises("AssertionError")
    ELSE IF r.content_type \notin {"application/json",
                                   "application/json; charset=utf-8"}
    THEN Raises("AssertionError")
    ELSE IF r.encoding # "utf-8" THEN Raises("AssertionError")
    ELSE IF r.json = None THEN Raises("JSONDecodeError")
    ELSE IF r.json[1].name # modname THEN Raises("AssertionError")
    ELSE package_of(modname,
             comprehension([i \in DOMAIN r.json[1].releases |->
                              parse_release(r.json[1].releases[i])]))

\* lines 82-84: the package load_package gave is cached and returned, its
\* exception leaves find
find_loaded(cache, name, r, package) ==
    [ret |-> package,
     package_cache |->
         IF package.kind = "return"
         THEN [n \in DOMAIN cache \cup {name} |->
                 IF n = name THEN package.value ELSE cache[n]]
         ELSE cache,
     requests |->
         << Get(<<MOD_PORTAL_URL, "/api/mods/", name, "/full">>, r) >>]

\* mutant of FactorioModProvider_find: the cache is not looked at
find_uncached(cache, version, name, r) ==
    IF is_internal(name)
    THEN [ret |-> Returns(FactorioMod(name,
                              << <<version, <<>>, "", "", "">> >>)),
          package_cache |-> cache, requests |-> <<>>]
    ELSE find_loaded(cache, name, r, load_package(name, r))

\* FactorioModProvider.find(name) of a provider with the cache and the game
\* version given, when the portal would answer with r: what it returns or
\* raises, the cache it leaves and the requests it made
FactorioModProvider_find(cache, version, name, r) ==
    IF name \in DOMAIN cache
    THEN [ret |-> Returns(cache[name]), package_cache |-> cache,
          requests |-> <<>>]
    ELSE IF is_internal(name)
    THEN [ret |-> Returns(FactorioMod(name,
                              << <<version, <<>>, "", "", "">> >>)),
          package_cache |-> cache, requests |-> <<>>]
    ELSE find_loaded(cache, name, r, load_package(name, r))

----------------------------------------------------------------------------
(* fmm.py: a sequence of find calls on one FactorioModProvider *)

\* find calls made on one provider
MaxFinds == 3

\* the names find is called with
ProviderNames == {"a", "b", "base", "quality"}

\* a release of a manifest the portal serves
Release(modname, version, dependencies) ==
    [version |-> version, dependencies |-> dependencies,
     download_url |-> "/download/" \o modname \o "/" \o text(version),
     file_name |-> modname \o "_" \o text(version) \o ".zip",
     sha1 |-> sha1(modname \o " " \o text(version))]

\* the release lists of the manifests: three well-formed ones, one with a
\* version and one with a dependency that do not parse
ManifestReleases(modname) ==
    { << Release(modname, <<"1", ".", "0", ".", "0">>,
                 << <<"b", "a", "s", "e">> >>) >>,
      << Release(modname, <<"1", ".", "0", ".", "0">>, <<>>),
         Release(modname, <<"1", ".", "1", ".", "0">>,
                 << <<"?", " ", "b">> >>) >>,
      << Release(modname, <<"2", ".", "0", ".", "0">>, << <<"b">> >>) >>,
      << Release(modname, <<"x">>, <<>>) >>,
      << Release(modname, <<"1", ".", "0", ".", "0">>, << <<>> >>) >> }

\* the answers of the portal to GET /api/mods/<modname>/full
Responses(modname) ==
    { [status_code |-> 200, content_type |-> "application/json",
       encoding |-> "utf-8",
       json |-> Some([name |-> modname, releases |-> releases])] :
        releases \in ManifestReleases(modname) }
    \cup { [status_code |-> 200, content_type |-> "application/json",
            encoding |-> "utf-8",
            json |-> Some([name |-> "other", releases |-> <<>>])],
           [status_code |-> 404, content_type |-> "text/html",
            encoding |-> "utf-8", json |-> None] }

\* FactorioModProvider(game_version)
ProviderInit ==
    /\ packages = <<>>
    /\ requirements = <<>>
    /\ stack = <<>>
    /\ pc = "provider"
    /\ outcome = ""
    /\ result = {}
    /\ finds = <<>>
    /\ method = NoCall
    /\ ret = Pending
    /\ game_version \in {DEFAULT_FACTORIO_VERSION, <<1, 1, 110>>}
    /\ package_cache = EmptyDict
    /\ lock_file = Missing
    /\ lock = <<>>
    /\ target = EmptyDict
    /\ effects = <<>>

\* provider.find(name) when the portal would answer with r
Find(name, r) ==
    /\ pc = "provider"
    /\ Len(finds) < MaxFinds
    /\ finds' = Append(finds, name)
    /\ method' = [op |-> "find", name |-> name]
    /\ \E f \in { FactorioModProvider_find(package_cache, game_version,
                                           name, r) } :
          /\ ret' = f.ret
          /\ package_cache' = f.package_cache
          /\ effects' = effects \o f.requests
    /\ UNCHANGED <<packages, requirements, stack, pc, outcome, result,
                   game_version, lock_file, lock, target>>

\* line 75: the name is in the cache
FindCached ==
    \E name \in DOMAIN package_cache : \E r \in Responses(name) :
        Find(name, r)

\* line 78: the name is not in the cache and is internal
FindInternal ==
    \E name \in ProviderNames \ DOMAIN package_cache :
        is_internal(name) /\ \E r \in Responses(name) : Find(name, r)

\* lines 81-84: the manifest is loaded
FindLoad ==
    \E name \in ProviderNames \ DOMAIN package_cache :
        ~is_internal(name) /\ \E r \in Responses(name) : Find(name, r)

ProviderNext == FindCached \/ FindInternal \/ FindLoad

ProviderSpec == ProviderInit /\ [][ProviderNext]_vars

\* the requests among the effects that fetched the manifest of name:
\* load_package returned a package from them
Fetched(name) ==
    { i \in DOMAIN effects :
        /\ effects[i].op = "requests.get"
        /\ effects[i].url = <<MOD_PORTAL_URL, "/api/mods/", name, "/full">>
        /\ load_package(name, effects[i].response).kind = "return" }

\* the requests among the effects that asked for the manifest of name
Asked(name) ==
    { i \in DOMAIN effects :
        /\ effects[i].op = "requests.get"
        /\ effects[i].url = <<MOD_PORTAL_URL, "/api/mods/", name, "/full">> }

\* C21: over a sequence of find calls on one provider, a find of an internal
\* name makes no request and returns a package of that name with exactly one
\* release, at the provider's game version and without dependencies, and
\* its manifest is never asked for; a find of a name whose manifest was
\* fetched before makes no request and returns the package that fetch gave,
\* so no manifest is fetched more than once
C21_FetchedAtMostOnce ==
    /\ [](\A name \in ProviderNames : Cardinality(Fetched(name)) <= 1)
    /\ [][ \A name \in ProviderNames :
        finds' = Append(finds, name) =>
            /\ is_internal(name) =>
                 /\ effects' = effects
                 /\ Asked(name) = {}
                 /\ ret'.kind = "return"
                 /\ ret'.value.name = name
                 /\ Len(ret'.value.releases) = 1
                 /\ ret'.value.releases[1].version = game_version
                 /\ ret'.value.releases[1].dependencies = <<>>
            /\ Fetched(name) # {} =>
                 /\ effects' = effects
                 /\ \E i \in Fetched(name) :
                       ret' = load_package(name, effects[i].response) ]_vars

\* a was fetched, then found again and returned without a second request
C21_Witness ==
    /\ pc = "provider"
    /\ finds = <<"a", "base", "a">>
    /\ Len(effects) = 1
    /\ Fetched("a") = {1}
    /\ ret = load_package("a", effects[1].response)
    /\ Len(ret.value.releases) = 2

----------------------------------------------------------------------------
(* fmm.py: the lock file, update and the download of one mod *)

LockEntry(name, version, download_url, file_name, sha1_) ==
    [name |-> name, version |-> version, download_url |-> download_url,
     file_name |-> file_name, sha1 |-> sha1_]

\* isinstance(o, LockEntry): object_hook leaves an object as a dict only
\* when one of the five keys is missing
is_LockEntry(o) ==
    {"name", "version", "download_url", "file_name", "sha1"} \subseteq DOMAIN o

\* lines 127-131: the LockEntry of val with the version parsed from
\* val['version'], or the exception of Version.parse
decoded(val, version) ==
    IF version.kind = "raise" THEN version
    ELSE Returns(LockEntry(val.name, version.value, val.download_url,
                           val.file_name, val.sha1))

\* LockEntryDecoder.object_hook(val)
object_hook(val) ==
    IF is_LockEntry(val) THEN decoded(val, Version_parse(val.version))
    ELSE Returns(val)

\* load_lock_file(file): the file is Missing, or its text is not JSON
\* (json = None), or it is the JSON list file.json[1] of objects
load_lock_file(file) ==
    IF file = Missing THEN Raises("FileNotFoundError")
    ELSE IF file.json = None THEN Raises("ValueError")
    ELSE comprehension([i \in DOMAIN file.json[1] |->
                          object_hook(file.json[1][i])])

\* sorted(lock, key=lambda entry: entry.name): a stable sort, with Python's
\* order of the names of the model
RECURSIVE sorted_by_name(_)
sorted_by_name(entries) ==
    IF entries = <<>> THEN <<>>
    ELSE LET order == <<"a", "b", "base", "quality">>
             rank(name) == CHOOSE i \in DOMAIN order : order[i] = name
             rest == sorted_by_name(Tail(entries))
             before == SelectSeq(rest, LAMBDA e :
                           rank(e.name) < rank(Head(entries).name))
             after == SelectSeq(rest, LAMBDA e :
                          rank(e.name) >= rank(Head(entries).name))
         IN  before \o << Head(entries) >> \o after

\* store_lock_file(file, lock): the text written, LockEntryEncoder giving
\* each version as str(version)
store_lock_file(entries) ==
    LET sorted == sorted_by_name(entries)
    IN  [kind |-> "text",
         json |-> Some([i \in DOMAIN sorted |->
                          [name |-> sorted[i].name,
                           version |-> Version_str(sorted[i].version),
                           download_url |-> sorted[i].download_url,
                           file_name |-> sorted[i].file_name,
                           sha1 |-> sorted[i].sha1]])]

\* update(mods, factorio_version) with a provider that finds pkgs: the packages
\* of the portal and the internal ones at factorio_version. A find of the
\* portal provider that fails raises the AssertionError of load_package,
\* where the find of a static provider raises StopIteration.
update(pkgs, mods) ==
    LET r == resolve(pkgs, mods)
        resolved == { mod \in r.result : ~is_internal(mod.name) }
        order == CHOOSE s \in [1..Cardinality(resolved) -> resolved] :
                     \A mod \in resolved : \E i \in DOMAIN s : s[i] = mod
    IN  IF r.outcome = generator_raises(find_raises)
        THEN Raises("AssertionError")
        ELSE IF r.outcome # "return" THEN Raises(r.outcome)
        ELSE Returns(sorted_by_name(
                 [i \in DOMAIN order |->
                    LockEntry(order[i].name, order[i].version,
                              order[i].download_url, order[i].file_name,
                              order[i].sha1)]))

\* mutant of download_mod_to_target: the digest is not compared
download_unverified(mod, r, files) ==
    IF r.status_code # 200 THEN Raises("AssertionError")
    ELSE IF r.content_type # "application/octet-stream"
    THEN Raises("AssertionError")
    ELSE Returns([f \in DOMAIN files \cup {mod.file_name} |->
                    IF f = mod.file_name THEN r.content ELSE files[f]])

\* download_mod_to_target(mod, url, target) when the portal answers with r
\* and target holds files: the files of target afterwards, or the exception
download_mod_to_target(mod, r, files) ==
    IF r.status_code # 200 THEN Raises("AssertionError")
    ELSE IF r.content_type # "application/octet-stream"
    THEN Raises("AssertionError")
    ELSE IF sha1(r.content) # mod.sha1 THEN Raises("AssertionError")
    ELSE Returns([f \in DOMAIN files \cup {mod.file_name} |->
                    IF f = mod.file_name THEN r.content ELSE files[f]])

----------------------------------------------------------------------------
(* fmm.py: install_command *)

\* objects of one lock file
MaxLock == 2

\* the objects of the lock files: the entries of a 1.0.0 and b 1.0.0, an
\* entry whose version does not parse and an object without sha1
LockObjects ==
    LET a == Release("a", <<"1", ".", "0", ".", "0">>, <<>>)
        b == Release("b", <<"1", ".", "0", ".", "0">>, <<>>)
    IN  { [name |-> "a", version |-> a.version,
           download_url |-> a.download_url, file_name |-> a.file_name,
           sha1 |-> a.sha1],
          [name |-> "b", version |-> b.version,
           download_url |-> b.download_url, file_name |-> b.file_name,
           sha1 |-> b.sha1],
          [name |-> "b", version |-> <<"x">>,
           download_url |-> b.download_url, file_name |-> b.file_name,
           sha1 |-> b.sha1],
          [name |-> "b", version |-> b.version,
           download_url |-> b.download_url, file_name |-> b.file_name] }

\* args.lock: no file, a text that is not JSON, a JSON list of objects
LockFiles ==
    { Missing, [kind |-> "text", json |-> None] }
    \cup { [kind |-> "text", json |-> Some(objects)] :
             objects \in UNION { [1..n -> LockObjects] : n \in 0..MaxLock } }

\* what the provider of update finds: the packages the portal serves for a
\* and b, a name it answers with 404 left out, and the internal base
PortalPackages(version) ==
    { SelectSeq([i \in 1..3 |->
                   IF i = 3
                   THEN Returns(FactorioMod("base",
                                    << <<version, <<>>, "", "", "">> >>))
                   ELSE load_package(<<"a", "b">>[i], portal[i])],
                LAMBDA p : p.kind = "return") :
        portal \in Responses("a") \X Responses("b") }

\* load_mod_list(args.mods)
ModLists ==
    { << Requirement("NONE", "a", None) >>,
      << Requirement("NONE", "b", None), Requirement("NONE", "a", None) >>,
      << Requirement("NONE", "a",
                     Some(VersionComparison("GE", <<2, 0, 0>>))) >> }

\* the answers of the portal to the download of mod
DownloadResponses(mod) ==
    { [status_code |-> status, content_type |-> type, content |-> content] :
        status \in {200, 403},
        type \in {"application/octet-stream", "text/html"},
        content \in { c \in {"a 1.0.0", "b 1.0.0", "a 2.0.0", "b 2.0.0",
                             "a 1.1.0", "b 1.1.0"} :
                        sha1(c) = mod.sha1 } \cup {"<html>"} }

\* install_command(args) is called
InstallInit ==
    /\ \E p \in PortalPackages(DEFAULT_FACTORIO_VERSION) :
          packages = [i \in DOMAIN p |-> p[i].value]
    /\ requirements \in ModLists
    /\ stack = <<>>
    /\ pc = "install"
    /\ outcome = ""
    /\ result = {}
    /\ finds = <<>>
    /\ \E b \in BOOLEAN : method = [op |-> "install", nix_prefetch |-> b]
    /\ ret = Pending
    /\ game_version = DEFAULT_FACTORIO_VERSION
    /\ package_cache = EmptyDict
    /\ lock_file \in LockFiles
    /\ lock = <<>>
    /\ target = EmptyDict
    /\ effects = <<>>

\* the mods the loop of lines 224-230 has gone through
installed ==
    Len(SelectSeq(effects, LAMBDA e :
                      e.op \in {"requests.get", "nix-prefetch-url"}))

\* lines 215: the lock file loads
InstallLoad ==
    /\ pc = "install"
    /\ \E loaded \in { load_lock_file(lock_file) } :
          /\ loaded.kind = "return"
          /\ lock' = loaded.value
    /\ pc' = "download"
    /\ UNCHANGED <<packages, requirements, stack, outcome, result, finds,
                   method, ret, game_version, package_cache, lock_file,
                   target, effects>>

\* lines 216-219: there is no lock file
InstallGenerate ==
    /\ pc = "install"
    /\ load_lock_file(lock_file) = Raises("FileNotFoundError")
    /\ \E u \in { update(packages, requirements) } :
       \E resolved \in { [op |-> "resolve", requirements |-> requirements] } :
           IF u.kind = "raise"
           THEN /\ pc' = "done"
                /\ outcome' = u.exception
                /\ effects' = Append(effects, resolved)
                /\ UNCHANGED <<lock, lock_file>>
           ELSE /\ pc' = "download"
                /\ lock' = u.value
                /\ lock_file' = store_lock_file(u.value)
                /\ effects' = effects \o
                       << resolved,
                          [op |-> "store_lock_file", lock |-> u.value] >>
                /\ UNCHANGED outcome
    /\ UNCHANGED <<packages, requirements, stack, result, finds, method, ret,
                   game_version, package_cache, target>>

\* lines 220-222: the lock file does not decode
InstallBail ==
    /\ pc = "install"
    /\ load_lock_file(lock_file) = Raises("ValueError")
    /\ pc' = "done"
    /\ outcome' = "exit(1)"
    /\ UNCHANGED <<packages, requirements, stack, result, finds, method, ret,
                   fmm_vars>>

\* line 225: the next element of lock is no LockEntry, mod.name fails
InstallNoEntry ==
    /\ pc = "download"
    /\ installed < Len(lock)
    /\ ~is_LockEntry(lock[installed + 1])
    /\ pc' = "done"
    /\ outcome' = "AttributeError"
    /\ UNCHANGED <<packages, requirements, stack, result, finds, method, ret,
                   fmm_vars>>

\* lines 225-230 without --nix-prefetch: download_mod_to_target
InstallDownload ==
    /\ pc = "download"
    /\ installed < Len(lock)
    /\ is_LockEntry(lock[installed + 1])
    /\ ~method.nix_prefetch
    /\ LET mod == lock[installed + 1]
       IN  \E r \in DownloadResponses(mod) :
              \E d \in { download_mod_to_target(mod, r, target) } :
                  /\ effects' = Append(effects,
                         Get(<<MOD_PORTAL_URL, mod.download_url>>, r))
                  /\ IF d.kind = "return"
                     THEN target' = d.value /\ UNCHANGED <<pc, outcome>>
                     ELSE /\ pc' = "done"
                          /\ outcome' = d.exception
                          /\ UNCHANGED target
    /\ UNCHANGED <<packages, requirements, stack, result, finds, method, ret,
                   game_version, package_cache, lock_file, lock>>

\* lines 225-228 with --nix-prefetch: nix_prefetch_mod
InstallPrefetch ==
    /\ pc = "download"
    /\ installed < Len(lock)
    /\ is_LockEntry(lock[installed + 1])
    /\ method.nix_prefetch
    /\ \E returncode \in {0, 1} :
          /\ effects' = Append(effects,
                 [op |-> "nix-prefetch-url",
                  url |-> <<MOD_PORTAL_URL,
                            lock[installed + 1].download_url>>,
                  returncode |-> returncode])
          /\ IF returncode # 0
             THEN pc' = "done" /\ outcome' = "exit(2)"
             ELSE UNCHANGED <<pc, outcome>>
    /\ UNCHANGED <<packages, requirements, stack, result, finds, method, ret,
                   game_version, package_cache, lock_file, lock, target>>

\* lines 232-240: the loop is over, mod-list.json is written
InstallModList ==
    /\ pc = "download"
    /\ installed = Len(lock)
    /\ pc' = "done"
    /\ outcome' = "return"
    /\ target' =
          IF method.nix_prefetch THEN target
          ELSE [f \in DOMAIN target \cup {"mod-list.json"} |->
                  IF f = "mod-list.json"
                  THEN [i \in DOMAIN lock |->
                          [name |-> lock[i].name, enabled |-> TRUE]]
                  ELSE target[f]]
    /\ UNCHANGED <<packages, requirements, stack, result, finds, method, ret,
                   game_version, package_cache, lock_file, lock, effects>>

InstallNext ==
    \/ InstallLoad
    \/ InstallGenerate
    \/ InstallBail
    \/ InstallNoEntry
    \/ InstallDownload
    \/ InstallPrefetch
    \/ InstallModList

InstallSpec == InstallInit /\ [][InstallNext]_vars

----------------------------------------------------------------------------
(* C22 *)

\* the downloads among the effects, in order
Downloads ==
    SelectSeq(effects, LAMBDA e :
                  e.op \in {"requests.get", "nix-prefetch-url"})

\* a well-formed lock file: a JSON list of objects that have the five keys
\* of an entry and a well-formed version
WellFormedLock(file) ==
    /\ file # Missing
    /\ file.json # None
    /\ \A i \in DOMAIN file.json[1] :
          /\ DOMAIN file.json[1][i] =
                 {"name", "version", "download_url", "file_name", "sha1"}
          /\ WellFormedVersion(file.json[1][i].version)

\* a lock file that is there and is not well-formed
MalformedLock(file) == file # Missing /\ ~WellFormedLock(file)

\* entries are the objects of a lock file, one for one
SameEntries(objects, entries) ==
    /\ Len(objects) = Len(entries)
    /\ \A i \in DOMAIN objects :
          /\ DOMAIN entries[i] = DOMAIN objects[i]
          /\ entries[i].name = objects[i].name
          /\ entries[i].download_url = objects[i].download_url
          /\ entries[i].file_name = objects[i].file_name
          /\ entries[i].sha1 = objects[i].sha1
          /\ Version_eq(entries[i].version,
                        Version_parse(objects[i].version).value)

\* the step of install_command with a well-formed lock file: its entries
\* are taken, nothing is resolved and the file is not written
C22_LoadStep ==
    (pc = "install" /\ WellFormedLock(lock_file)) =>
        /\ pc' = "download"
        /\ SameEntries(lock_file.json[1], lock')
        /\ effects' = effects
        /\ lock_file' = lock_file

\* the step of install_command without a lock file: the resolver runs, and
\* either fails, or its entries are stored in the lock file and taken
C22_GenerateStep ==
    (pc = "install" /\ lock_file = Missing) =>
        \/ /\ pc' = "done"
           /\ outcome' # "return"
           /\ Len(effects') = 1
           /\ effects'[1].op = "resolve"
           /\ lock_file' = Missing
        \/ /\ pc' = "download"
           /\ Len(effects') = 2
           /\ effects'[1].op = "resolve"
           /\ effects'[2] = [op |-> "store_lock_file", lock |-> lock']
           /\ WellFormedLock(lock_file')
           /\ SameEntries(lock_file'.json[1], lock')

\* a step of the download loop: the next entry of lock is downloaded or
\* nothing is; lock and the lock file stay; it returns after the last entry
C22_DownloadStep ==
    pc = "download" =>
        /\ lock' = lock
        /\ lock_file' = lock_file
        /\ \/ effects' = effects
           \/ /\ Len(Downloads) < Len(lock)
              /\ Len(effects') = Len(effects) + 1
              /\ SubSeq(effects', 1, Len(effects)) = effects
              /\ effects'[Len(effects')].op
                     \in {"requests.get", "nix-prefetch-url"}
              /\ effects'[Len(effects')].url =
                     <<MOD_PORTAL_URL, lock[Len(Downloads) + 1].download_url>>
        /\ outcome' = "return" => Len(Downloads) = Len(lock)

\* C22: with a well-formed lock file install downloads exactly its entries,
\* in order, and never runs the resolver or rewrites the lock file; without
\* a lock file it resolves, stores the new lock file and then downloads
\* those entries; with a malformed lock file it ends with no download, no
\* resolution and nothing written
C22_InstallFollowsLockFile ==
    /\ [](MalformedLock(lock_file) =>
              effects = <<>> /\ target = EmptyDict /\ outcome # "return")
    /\ [][C22_LoadStep /\ C22_GenerateStep /\ C22_DownloadStep]_vars

\* the clauses of C22 for a well-formed and for a missing lock file
C22_WithoutMalformed ==
    [][C22_LoadStep /\ C22_GenerateStep /\ C22_DownloadStep]_vars

----------------------------------------------------------------------------
(* C23 *)

\* the call below the innermost one: the one that called it
caller == stack[Len(stack) - 1]

\* the innermost call is at a candidate whose forward check fails
ForwardCheckFails ==
    /\ pc = "search"
    /\ top.pc = "loop"
    /\ top.versions # <<>>
    /\ forward_check_fails(top.versions[1], top.selected)

----------------------------------------------------------------------------
(* C24 *)

\* the worklist of the innermost call is empty: it is about to yield
WorklistEmpty == pc = "search" /\ top.pc = "start" /\ top.packages = <<>>

\* C24: whenever the worklist becomes empty, every selected release meets
\* the predicate accumulated for its name, so the assertion of lines
\* 317-319 holds and resolve never ends with an AssertionError.
C24_AssertionNeverFails ==
    /\ WorklistEmpty =>
          \A n \in DOMAIN top.selected :
              Call(ChainMap_get_default(top.reqs, top.selected[n].name,
                                        true_fun),
                   top.selected[n])
    /\ outcome # "AssertionError"

\* the worklist is empty with two packages selected besides the root, one
\* of them under a version comparison of a dependency of the other
C24_Witness ==
    /\ WorklistEmpty
    /\ \E n \in DOMAIN top.selected : \E m \in DOMAIN top.selected \ {"$root"} :
          /\ n # m
          /\ \E d \in Requirements(top.selected[n].dependencies) :
                d.name = m /\ d.vercomp # None

----------------------------------------------------------------------------
(* C25 *)

\* the releases a package named n has: those of the universe and the root's
ReleasesNamed(n) ==
    { w \in AllReleases \cup Requirements(root.releases) : w.name = n }

\* C25: on every search path (the calls of the stack, from the root down),
\* once a release of a package is selected the predicate for its name admits
\* only releases of that version; a call that pops the package again has
\* only candidates of that version; and a selected name keeps its version
\* in every deeper call.
C25_LockIn ==
    pc = "search" =>
        \A k \in 1..Len(stack) :
            /\ \A n \in DOMAIN stack[k].selected :
                  \A w \in ReleasesNamed(n) :
                      Call(ChainMap_get_default(stack[k].reqs, n, true_fun),
                           w)
                          => Version_eq(w.version,
                                        stack[k].selected[n].version)
            /\ (stack[k].pc = "loop"
                  /\ stack[k].package[1].name \in DOMAIN stack[k].selected) =>
                  \A i \in 1..Len(stack[k].versions) :
                      Version_eq(stack[k].versions[i].version,
                          stack[k].selected[stack[k].package[1].name].version)
            /\ k > 1 =>
                  \A n \in DOMAIN stack[k - 1].selected :
                      /\ n \in DOMAIN stack[k].selected
                      /\ Version_eq(stack[k].selected[n].version,
                                    stack[k - 1].selected[n].version)

\* a package with several releases is popped again after one of them was
\* selected, and only that version is a candidate
C25_Witness ==
    /\ pc = "search"
    /\ top.pc = "loop"
    /\ top.package[1].name \in DOMAIN top.selected
    /\ top.versions # <<>>
    /\ \E w \in ReleasesNamed(top.package[1].name) :
          ~ Version_eq(w.version, top.selected[top.package[1].name].version)

----------------------------------------------------------------------------
(* C26 *)

\* the candidates the innermost call has gone through
Tried ==
    Len(candidates(top.reqs, top.package[1])) - Len(top.versions)

\* C26: while a call is in its loop, its worklist (after the pop), its
\* constraint map, its selection and its package stay as they are, whatever
\* the calls below it do: after a failed candidate the next one starts from
\* the state the failed one started from.
C26_ParentStateKept ==
    [][ (pc = "search" /\ pc' = "search") =>
          \A k \in 1..Len(stack) :
              (k <= Len(stack') /\ stack[k].pc = "loop") =>
                  /\ stack'[k].pc = "loop"
                  /\ stack'[k].packages = stack[k].packages
                  /\ stack'[k].reqs = stack[k].reqs
                  /\ stack'[k].selected = stack[k].selected
                  /\ stack'[k].package = stack[k].package ]_vars

\* the call for a candidate has failed and the call above is at its next
\* candidate, which passes the forward check
C26_Witness ==
    /\ pc = "search"
    /\ top.pc = "loop"
    /\ Tried >= 1
    /\ top.versions # <<>>
    /\ ~ forward_check_fails(top.versions[1], top.selected)
    /\ top.package[1].name \notin DOMAIN top.selected

----------------------------------------------------------------------------
(* C27 *)

\* the names of a sequence of packages or requirements
Names(s) == [i \in 1..Len(s) |-> s[i].name]

\* the dependencies of the release chosen for call k: the required ones
\* whose name the caller had not selected, in the order of declaration
Pushed(k) ==
    SelectSeq(stack[k].selected[stack[k - 1].package[1].name].dependencies,
              LAMBDA d : /\ d.prefix \in {"NONE", "UNORDERED"}
                         /\ d.name \notin DOMAIN stack[k - 1].selected)

\* C27: the worklist is a stack. A call starts with the worklist of its
\* caller followed by the packages of the pushed dependencies of the chosen
\* release in the order of their declaration, and it pops the last element:
\* the last-declared pushed dependency when there is one, and otherwise the
\* last package of the caller's worklist.
C27_WorklistIsStack ==
    pc = "search" =>
        \A k \in 2..Len(stack) :
            LET worklist == Names(stack[k - 1].packages) \o Names(Pushed(k))
            IN  IF stack[k].pc = "start"
                THEN Names(stack[k].packages) = worklist
                ELSE /\ worklist # <<>>
                     /\ stack[k].package[1].name = worklist[Len(worklist)]
                     /\ Names(stack[k].packages) =
                            SubSeq(worklist, 1, Len(worklist) - 1)

\* the chosen release declared two dependencies that were pushed, and the
\* call made for it has popped the package of the second
C27_Witness ==
    /\ pc = "search"
    /\ Len(stack) >= 2
    /\ top.pc = "loop"
    /\ Len(Pushed(Len(stack))) = 2
    /\ Pushed(Len(stack))[1].name # Pushed(Len(stack))[2].name
    /\ top.package[1].name = Pushed(Len(stack))[2].name

----------------------------------------------------------------------------
(* C28 *)

\* the dependency lists that count in a result: the root list and the
\* dependencies of every release of the result
DependencyLists ==
    {requirements} \cup { v.dependencies : v \in result }

\* list L declares more than one dependency on the name of d
DeclaredAgain(L, d) ==
    \E i \in 1..Len(L) : \E j \in 1..Len(L) :
        i # j /\ L[i] = d /\ L[j].name = d.name

\* C28: when resolve returns, the release chosen for a name meets the version
\* comparison of every dependency of a list that declares several
\* dependencies on that name.
C28_EveryDuplicateEnforced ==
    Returned =>
        \A L \in DependencyLists : \A d \in Requirements(L) :
            DeclaredAgain(L, d) =>
                \A w \in result : w.name = d.name => MeetsVersion(d, w)

----------------------------------------------------------------------------
(* C29 *)

\* response r answers the download of entry mod with status 200 and a
\* content whose SHA-1 digest is the sha1 of the entry
Verified(mod, r) ==
    r.status_code = 200 /\ sha1(r.content) = mod.sha1

\* the archives of the target directory
Archives == DOMAIN target \ {"mod-list.json"}

\* every archive of the target directory is the content of a verified
\* download of an entry of lock; an unverified download is the last thing
\* install did: it ended with an AssertionError and wrote no mod-list.json
C29_State ==
    /\ \A f \in Archives :
          \E i \in 1..Len(Downloads) :
              /\ lock[i].file_name = f
              /\ Verified(lock[i], Downloads[i].response)
              /\ target[f] = Downloads[i].response.content
    /\ \A i \in 1..Len(Downloads) :
          ~ Verified(lock[i], Downloads[i].response) =>
              /\ i = Len(Downloads)
              /\ effects[Len(effects)] = Downloads[i]
              /\ pc = "done"
              /\ outcome = "AssertionError"
              /\ "mod-list.json" \notin DOMAIN target

\* the step of an unverified download writes nothing
C29_Step ==
    ( /\ Len(effects') = Len(effects) + 1
      /\ effects'[Len(effects')].op = "requests.get"
      /\ ~ Verified(lock[installed + 1], effects'[Len(effects')].response) )
        => target' = target

\* C29: without --nix-prefetch an archive is in the target directory only
\* when its content has the SHA-1 digest of its lock entry and came with
\* status 200; a download that fails either test writes nothing, is the last
\* download, and leaves the directory without mod-list.json.
C29_WrittenOnlyWhenVerified ==
    /\ [](~ method.nix_prefetch => C29_State)
    /\ [][~ method.nix_prefetch => C29_Step]_vars

\* the first archive was written, and the second download came with status
\* 200 and a content of another digest
C29_Witness ==
    /\ ~ method.nix_prefetch
    /\ Len(Downloads) = 2
    /\ lock[1].file_name \in Archives
    /\ Downloads[2].response.status_code = 200
    /\ Downloads[2].response.content_type = "application/octet-stream"
    /\ sha1(Downloads[2].response.content) # lock[2].sha1
    /\ lock[2].file_name \notin Archives
    /\ outcome = "AssertionError"

=============================================================================
